---- MODULE Spec2Model ----
(***************************************************************************)
(* A model of the PostgreSQL-backed memory store of demo1                  *)
(* (src/demo1/postgresql.py) and of the tools of the langgraph-mcp-project *)
(* workflow (src/langgraph-mcp-project/src/tools, src/graph/flow.py).      *)
(*                                                                         *)
(* The committed contents of the table langgraph_store are the set `table` *)
(* of rows.  Every store method opens a connection, runs its statements in *)
(* one transaction on the rows it sees, and commits or rolls back; a       *)
(* method is one action.  `call` holds the call the caller is looking at   *)
(* (its arguments, the fault the environment put into it, whether it       *)
(* raised and what it returned); Return is the caller moving on.           *)
(*                                                                         *)
(* Spec is the store under single calls and short batches, SpecBatch the   *)
(* store under long batches on one record, SpecRetriever the retriever     *)
(* over health_records and the call_tools step, SpecSearch the similarity  *)
(* searches of the store and of the retriever side by side, SpecSchema two *)
(* processes that run _setup_tables statement by statement on one          *)
(* database, SpecWorkflow the runs of the graph of build_graph, step by    *)
(* step, SpecQueries two /query requests served at the same time,          *)
(* SpecPuts two callers that put at the same time, statement by statement, *)
(* SpecChat the chat service of demo1 over the store, SpecIngest the       *)
(* /ingest endpoint over health_records, and SpecConnections every         *)
(* operation of the store with the connections it holds.                   *)
(***************************************************************************)
EXTENDS Integers, Sequences, FiniteSets, TLC

VARIABLES
    index,      \* PostgreSQLStore._index, fixed at construction
    table,      \* committed rows of langgraph_store
    call,       \* the call the caller has just made, or NoCall
    health_records, \* the table health_records of the document corpus
    schema,     \* the objects of the database catalog that are committed
    setup,      \* the _setup_tables call of each process
    workflow,   \* the workflow run in flight, or NoRun
    requests,   \* the workflow run of each /query request being served
    writers,    \* the put of each caller that is writing, step by step
    connections \* the number of database connections the store holds open

vars == <<index, table, call, health_records, schema, setup, workflow,
          requests, writers, connections>>

----------------------------------------------------------------------------
(* Bounds of the model *)

\* longest list of operations handed to batch
MaxBatchLen == 4

\* longest list of operations handed to batch next to the single calls
ShortBatchLen == 2

\* dimension of the embedding column (VECTOR(1024) in the source, scaled down)
VectorDim == 2

----------------------------------------------------------------------------
(* Values of the program *)

\* Python's None, and a present value, as results of get and of batch slots
None == <<>>
Some(v) == <<v>>

\* a JSON string and a JSON number, as members of a stored document
JStr(s) == [t |-> "str", v |-> s]
JNum(s) == [t |-> "num", v |-> s]

\* the namespaces callers use: tuples of strings
Namespaces == { <<>>, <<"a", "b">>, <<"a/b">> }

Keys == { "k1", "k2" }

\* the documents callers store: with a text under "data", with a number
\* under "data", and without a "data" member
Values ==
    { [data |-> JStr("hi")],
      [data |-> JNum("7")],
      [note |-> JStr("yo")] }

\* ns = "/".join(namespace)
RECURSIVE Join(_)
Join(namespace) ==
    IF namespace = <<>> THEN ""
    ELSE IF Len(namespace) = 1 THEN namespace[1]
    ELSE namespace[1] \o "/" \o Join(Tail(namespace))

\* Json(value): json.dumps lists the members of the dict one after another
RECURSIVE JsonDumps(_)
JsonDumps(value) ==
    IF DOMAIN value = {} THEN <<>>
    ELSE LET f == CHOOSE g \in DOMAIN value : TRUE
             rest == [g \in DOMAIN value \ {f} |-> value[g]]
         IN  <<[name |-> f, member |-> value[f]]>> \o JsonDumps(rest)

\* the JSONB column keeps one member per name (the last one given), and the
\* driver hands the column back as a dict
JsonLoads(text) ==
    LET names == { text[i].name : i \in DOMAIN text }
        last(n) == CHOOSE i \in DOMAIN text :
                      /\ text[i].name = n
                      /\ \A j \in DOMAIN text : text[j].name = n => j <= i
    IN  [n \in names |-> text[last(n)].member]

\* value.get("data", "")
GetData(value) ==
    IF "data" \in DOMAIN value THEN value["data"] ELSE JStr("")

\* isinstance(x, str)
IsStr(x) == x.t = "str"

----------------------------------------------------------------------------
(* The embedder *)

\* SQL NULL in the embedding column, and a vector in it
NullEmbedding == [isnull |-> TRUE, vec |-> <<>>]
Vector(v) == [isnull |-> FALSE, vec |-> v]

\* the index configurations a store is constructed with: none, a dict without
\* an embedder, and a dict with an embedder whose vectors have `dims`
\* components
NoIndex == [given |-> FALSE, embed |-> FALSE, dims |-> 0]
IndexConfigs ==
    { NoIndex,
      [given |-> TRUE, embed |-> FALSE, dims |-> 0],
      [given |-> TRUE, embed |-> TRUE,  dims |-> VectorDim],
      [given |-> TRUE, embed |-> TRUE,  dims |-> VectorDim + 1] }

\* self._index and "embed" in self._index
HasEmbedder(idx) == idx.given /\ idx.embed

\* embedder.embed_query(text): the same text always gives the same vector
EmbedQuery(idx, text) ==
    [i \in 1..idx.dims |->
        IF text = "hi" THEN (IF i = 1 THEN 1 ELSE 0)
        ELSE IF text = "" THEN 1
        ELSE (IF i = 2 THEN 1 ELSE 0)]

----------------------------------------------------------------------------
(* SQL statements, on the rows a transaction sees *)

Row(ns, key, value, embedding) ==
    [namespace |-> ns, key |-> key, value |-> value, embedding |-> embedding]

\* SELECT value ... WHERE namespace = %s AND key = %s; fetchone; result[0]
SelectValue(rows, ns, key) ==
    IF \E r \in rows : r.namespace = ns /\ r.key = key
    THEN Some((CHOOSE r \in rows : r.namespace = ns /\ r.key = key).value)
    ELSE None

\* a plain INSERT, without the ON CONFLICT clause
InsertRow(rows, ns, key, value, embedding) ==
    rows \cup { Row(ns, key, JsonLoads(JsonDumps(value)), embedding) }

\* INSERT ... ON CONFLICT (namespace, key) DO NOTHING
InsertOrKeep(rows, ns, key, value, embedding) ==
    IF \E r \in rows : r.namespace = ns /\ r.key = key
    THEN rows
    ELSE rows \cup { Row(ns, key, JsonLoads(JsonDumps(value)), embedding) }

\* INSERT ... ON CONFLICT (namespace, key) DO UPDATE SET value alone: the
\* embedding of the row that is there stays
UpsertValue(rows, ns, key, value, embedding) ==
    IF \E r \in rows : r.namespace = ns /\ r.key = key
    THEN { IF r.namespace = ns /\ r.key = key
           THEN [r EXCEPT !.value = JsonLoads(JsonDumps(value))]
           ELSE r : r \in rows }
    ELSE rows \cup { Row(ns, key, JsonLoads(JsonDumps(value)), embedding) }

\* INSERT ... ON CONFLICT (namespace, key) DO UPDATE SET value, embedding
UpsertRow(rows, ns, key, value, embedding) ==
    { r \in rows : ~(r.namespace = ns /\ r.key = key) }
        \cup { Row(ns, key, JsonLoads(JsonDumps(value)), embedding) }

\* DELETE ... WHERE key = %s, the namespace forgotten
DeleteByKey(rows, ns, key) == { r \in rows : r.key # key }

\* DELETE ... WHERE namespace = %s AND key = %s
DeleteRow(rows, ns, key) ==
    { r \in rows : ~(r.namespace = ns /\ r.key = key) }

\* DELETE ... WHERE namespace = %s
DeleteNamespace(rows, ns) == { r \in rows : r.namespace # ns }

\* the column is VECTOR(VectorDim): a vector of another length is refused
FitsColumn(embedding) ==
    embedding.isnull \/ Len(embedding.vec) = VectorDim

\* the embedding put and batch compute for a value
EmbeddingFor(idx, value) ==
    IF HasEmbedder(idx) /\ IsStr(GetData(value))
    THEN Vector(EmbedQuery(idx, GetData(value).v))
    ELSE NullEmbedding

----------------------------------------------------------------------------
(* Connections *)

\* conn = None; conn = psycopg2.connect(...): the connections an operation
\* holds once it is past connect, none when connect raised
Opened(fault) == IF fault = "connect" THEN 0 ELSE 1

\* an operation that closes its connection on the path of success only
LeftOpenOnFailure(opened, failed) == IF failed THEN opened ELSE 0

\* finally: if conn: conn.close() -- the connections of the operation that
\* are open when it has returned or raised
LeftOpen(opened, failed) == IF opened > 0 THEN opened - 1 ELSE 0

----------------------------------------------------------------------------
(* Schema setup *)

\* the processes that construct a PostgreSQLStore on the same database
Procs == { "p1", "p2" }

\* a process that has not called __init__, and one whose __init__ returned
NotStarted == [pc |-> "new", fault |-> "none", pending |-> {}, waited |-> FALSE]
Done == [pc |-> "done", fault |-> "none", pending |-> {}, waited |-> FALSE]

\* the catalog objects a successful _setup_tables has made sure of: the index
\* only `if self._index`
SchemaOf(idx) ==
    { "extension", "table" } \cup (IF idx.given THEN { "index" } ELSE {})

\* where _setup_tables can fail: the connection, one of its statements, the
\* commit
SetupFaults == { "none", "connect", "extension", "table", "index", "commit" }

\* no workflow run in flight
NoRun == [node |-> "none"]

\* the /query requests the service has in hand at the same time, none of
\* them being served yet
Requests == { "q1", "q2" }
NoRequests == [r \in Requests |-> NoRun]

\* the callers that put at the same time, none of them in a put yet
Writers == { "w1", "w2" }
Idle == [pc |-> "idle"]
NoWriters == [w \in Writers |-> Idle]

\* the except branch of _setup_tables: rollback, raise -- __init__ raises and
\* the process has no store
Failed(me) == [me EXCEPT !.pc = "failed", !.pending = {}, !.waited = FALSE]

\* another open transaction has created x and not yet committed
CreatedElsewhere(p, x) == \E o \in Procs \ {p} : x \in setup[o].pending

\* a statement that creates x without the IF NOT EXISTS clause: it fails when
\* x is there
CreatePlain(p, x, next) ==
    LET me == setup[p]
    IN  /\ ~CreatedElsewhere(p, x)
        /\ setup' = [setup EXCEPT ![p] =
              IF me.fault = x \/ x \in schema \cup me.pending THEN Failed(me)
              ELSE [me EXCEPT !.pc = next, !.pending = @ \cup {x}]]

\* CREATE ... IF NOT EXISTS x, in the transaction of p: a failure raises; an x
\* that is there is left alone; an x another open transaction has created
\* makes the statement wait for that transaction, and fail on the duplicate
\* when it commits
CreateIfNotExists(p, x, next) ==
    LET me == setup[p]
        there == x \in schema \cup me.pending
    IN  IF me.fault = x
        THEN setup' = [setup EXCEPT ![p] = Failed(me)]
        ELSE IF me.waited
        THEN /\ ~CreatedElsewhere(p, x)
             /\ setup' = [setup EXCEPT ![p] =
                   IF x \in schema THEN Failed(me)
                   ELSE [me EXCEPT !.pc = next, !.waited = FALSE,
                                   !.pending = @ \cup {x}]]
        ELSE IF there
        THEN setup' = [setup EXCEPT ![p] = [me EXCEPT !.pc = next]]
        ELSE IF CreatedElsewhere(p, x)
        THEN setup' = [setup EXCEPT ![p] = [me EXCEPT !.waited = TRUE]]
        ELSE setup' = [setup EXCEPT ![p] =
                [me EXCEPT !.pc = next, !.pending = @ \cup {x}]]

\* PostgreSQLStore.__init__ up to psycopg2.connect of _setup_tables
Construct(p, fault) ==
    /\ setup[p].pc \in { "new", "done", "failed" }
    /\ fault = "index" => index.given
    /\ setup' = [setup EXCEPT ![p] =
          [pc |-> IF fault = "connect" THEN "failed" ELSE "extension",
           fault |-> fault, pending |-> {}, waited |-> FALSE]]
    /\ connections' = connections + Opened(fault)
    /\ UNCHANGED <<index, table, call, health_records, schema, workflow,
                   requests, writers>>

\* CREATE EXTENSION IF NOT EXISTS vector
CreateExtension(p) ==
    /\ setup[p].pc = "extension"
    /\ CreateIfNotExists(p, "extension", "table")
    /\ connections' = IF setup'[p].pc = "failed"
                       THEN connections - 1 + LeftOpen(1, TRUE)
                       ELSE connections
    /\ UNCHANGED <<index, table, call, health_records, schema, workflow,
                   requests, writers>>

\* CREATE TABLE IF NOT EXISTS langgraph_store
CreateTable(p) ==
    /\ setup[p].pc = "table"
    /\ CreateIfNotExists(p, "table", IF index.given THEN "index" ELSE "commit")
    /\ connections' = IF setup'[p].pc = "failed"
                       THEN connections - 1 + LeftOpen(1, TRUE)
                       ELSE connections
    /\ UNCHANGED <<index, table, call, health_records, schema, workflow,
                   requests, writers>>

\* CREATE INDEX IF NOT EXISTS langgraph_store_embedding_idx
CreateIndex(p) ==
    /\ setup[p].pc = "index"
    /\ CreateIfNotExists(p, "index", "commit")
    /\ connections' = IF setup'[p].pc = "failed"
                       THEN connections - 1 + LeftOpen(1, TRUE)
                       ELSE connections
    /\ UNCHANGED <<index, table, call, health_records, schema, workflow,
                   requests, writers>>

\* conn.commit(): what the transaction created is in the catalog
Commit(p) ==
    /\ setup[p].pc = "commit"
    /\ IF setup[p].fault = "commit"
       THEN /\ setup' = [setup EXCEPT ![p] = Failed(@)]
            /\ schema' = schema
       ELSE /\ setup' = [setup EXCEPT ![p] = [@ EXCEPT !.pc = "done",
                                                       !.pending = {}]]
            /\ schema' = schema \cup setup[p].pending
    /\ connections' = connections - 1
                          + LeftOpen(1, setup[p].fault = "commit")
    /\ UNCHANGED <<index, table, call, health_records, workflow, requests,
                   writers>>

\* some process holds a store
HasStore == \E p \in Procs : setup[p].pc = "done"

----------------------------------------------------------------------------
(* The store *)

NoCall == [op |-> "none"]

\* health_records before anything has created it
NoTable == [exists |-> FALSE, dim |-> 0, rows |-> {}]

Init ==
    /\ index \in IndexConfigs
    /\ table = {}
    /\ call = NoCall
    /\ health_records = NoTable
    /\ schema = SchemaOf(index)
    /\ setup = [p \in Procs |-> IF p = "p1" THEN Done ELSE NotStarted]
    /\ workflow = NoRun
    /\ requests = NoRequests
    /\ writers = NoWriters
    /\ connections = 0

\* where a single write can fail: opening the connection, the embedding
\* call, the statement, the commit
WriteFaults == { "none", "connect", "embed", "execute", "commit" }

\* where a read can fail
ReadFaults == { "none", "connect", "embed", "execute" }

\* conn.commit() on success, conn.rollback() in the except branch
\* a connection in autocommit mode: what a statement wrote stays written
AutoCommitted(before, after, raised, fault) ==
    IF fault = "connect" THEN before ELSE after

Committed(before, after, raised, fault) ==
    IF raised THEN before ELSE after

\* PostgreSQLStore.put
Put(namespace, key, value, fault) ==
    /\ call = NoCall
    /\ fault = "embed" => HasEmbedder(index) /\ IsStr(GetData(value))
    /\ LET ns == Join(namespace)
           embedding == EmbeddingFor(index, value)
           raised == fault # "none" \/ ~FitsColumn(embedding)
           rows == UpsertRow(table, ns, key, value, embedding)
       IN  /\ table' = Committed(table, rows, raised, fault)
           /\ call' = [op |-> "put", namespace |-> namespace, key |-> key,
                       value |-> value, fault |-> fault, raised |-> raised]
    /\ connections' = connections + LeftOpen(Opened(fault), fault # "none")
    /\ UNCHANGED <<index, health_records, schema, setup, workflow, requests,
                   writers>>

\* what get returns: the value fetched, None when nothing is fetched and in
\* the except branch
GetResult(rows, namespace, key, fault) ==
    IF fault = "none" THEN SelectValue(rows, Join(namespace), key) ELSE None

\* a get that lets the exception out
GetRaising(namespace, key, fault) ==
    /\ call = NoCall
    /\ fault # "embed"
    /\ call' = [op |-> "get", namespace |-> namespace, key |-> key,
                fault |-> fault, raised |-> fault # "none",
                result |-> GetResult(table, namespace, key, fault)]
    /\ connections' = connections + LeftOpen(Opened(fault), fault # "none")
    /\ UNCHANGED <<index, table, health_records, schema, setup, workflow,
                   requests, writers>>

\* PostgreSQLStore.get
Get(namespace, key, fault) ==
    /\ call = NoCall
    /\ fault # "embed"
    /\ call' = [op |-> "get", namespace |-> namespace, key |-> key,
                fault |-> fault, raised |-> FALSE,
                result |-> GetResult(table, namespace, key, fault)]
    /\ connections' = connections + LeftOpen(Opened(fault), fault # "none")
    /\ UNCHANGED <<index, table, health_records, schema, setup, workflow,
                   requests, writers>>

\* PostgreSQLStore.delete
Delete(namespace, key, fault) ==
    /\ call = NoCall
    /\ fault # "embed"
    /\ LET raised == fault # "none"
           rows == DeleteRow(table, Join(namespace), key)
       IN  /\ table' = Committed(table, rows, raised, fault)
           /\ call' = [op |-> "delete", namespace |-> namespace,
                       key |-> key, fault |-> fault, raised |-> raised]
    /\ connections' = connections + LeftOpen(Opened(fault), fault # "none")
    /\ UNCHANGED <<index, health_records, schema, setup, workflow, requests,
                   writers>>

\* the argument of clear: no namespace (the default None), or a namespace
NoNamespace == [given |-> FALSE, namespace |-> <<>>]
GivenNamespace(n) == [given |-> TRUE, namespace |-> n]

\* `if namespace:` -- None and the empty tuple are both false
Truthy(arg) == arg.given /\ arg.namespace # <<>>

\* PostgreSQLStore.clear
Clear(arg, fault) ==
    /\ call = NoCall
    /\ fault # "embed"
    /\ LET raised == fault # "none"
           rows == IF Truthy(arg)
                   THEN DeleteNamespace(table, Join(arg.namespace))
                   ELSE {}
       IN  /\ table' = Committed(table, rows, raised, fault)
           /\ call' = [op |-> "clear", arg |-> arg, fault |-> fault,
                       raised |-> raised]
    /\ connections' = connections + LeftOpen(Opened(fault), fault # "none")
    /\ UNCHANGED <<index, health_records, schema, setup, workflow, requests,
                   writers>>

----------------------------------------------------------------------------
(* batch *)

\* op.get(name, default)
Field(op, name, default) == IF name \in DOMAIN op THEN op[name] ELSE default

GetOp(n, k) == [op |-> "get", namespace |-> n, key |-> k]
PutOp(n, k, v) == [op |-> "put", namespace |-> n, key |-> k, value |-> v]
DeleteOp(n, k) == [op |-> "delete", namespace |-> n, key |-> k]
\* an operation batch has no branch for
SearchOp(n) == [op |-> "search", namespace |-> n, query |-> "hi"]

KnownOp(op) == Field(op, "op", "") \in {"get", "put", "delete"}

\* the faults of a batch: none, the connection, the statement (or the
\* embedding call) of the operation at position `at`, the commit
NoFault == [kind |-> "none", at |-> 0]
BatchFaults(ops) ==
    { NoFault, [kind |-> "connect", at |-> 0], [kind |-> "commit", at |-> 0] }
        \cup { [kind |-> "execute", at |-> i] :
                  i \in { j \in DOMAIN ops : KnownOp(ops[j]) } }

\* a loop body that gives a get the rows as they are outside the
\* transaction, without the writes made earlier in the batch
StepOutsideTransaction(rows, results, op, idx) ==
    LET op_type == Field(op, "op", "")
        ns == Join(Field(op, "namespace", <<>>))
        key == Field(op, "key", "")
        value == Field(op, "value", <<>>)
        embedding == EmbeddingFor(idx, value)
    IN  IF op_type = "get" THEN
            [rows |-> rows, raised |-> FALSE,
             results |-> Append(results, SelectValue(table, ns, key))]
        ELSE IF op_type = "put" THEN
            IF ~FitsColumn(embedding)
            THEN [rows |-> rows, results |-> results, raised |-> TRUE]
            ELSE [rows |-> UpsertRow(rows, ns, key, value, embedding),
                  results |-> Append(results, None), raised |-> FALSE]
        ELSE IF op_type = "delete" THEN
            [rows |-> DeleteRow(rows, ns, key),
             results |-> Append(results, None), raised |-> FALSE]
        ELSE [rows |-> rows, results |-> results, raised |-> FALSE]

\* the body of the loop of batch, for one operation: `rows` is what the
\* transaction sees, `results` the list built so far
Step(rows, results, op, idx) ==
    LET op_type == Field(op, "op", "")
        ns == Join(Field(op, "namespace", <<>>))
        key == Field(op, "key", "")
        value == Field(op, "value", <<>>)
        embedding == EmbeddingFor(idx, value)
    IN  IF op_type = "get" THEN
            [rows |-> rows, raised |-> FALSE,
             results |-> Append(results, SelectValue(rows, ns, key))]
        ELSE IF op_type = "put" THEN
            IF ~FitsColumn(embedding)
            THEN [rows |-> rows, results |-> results, raised |-> TRUE]
            ELSE [rows |-> UpsertRow(rows, ns, key, value, embedding),
                  results |-> Append(results, None), raised |-> FALSE]
        ELSE IF op_type = "delete" THEN
            [rows |-> DeleteRow(rows, ns, key),
             results |-> Append(results, None), raised |-> FALSE]
        ELSE [rows |-> rows, results |-> results, raised |-> FALSE]

\* the loop of batch from position i on; an exception ends it
RECURSIVE RunOps(_, _, _, _, _, _)
RunOps(rows, results, ops, i, idx, fault) ==
    IF i > Len(ops) THEN [rows |-> rows, results |-> results, raised |-> FALSE]
    ELSE IF KnownOp(ops[i]) /\ fault.kind = "execute" /\ fault.at = i
    THEN [rows |-> rows, results |-> results, raised |-> TRUE]
    ELSE LET done == Step(rows, results, ops[i], idx)
         IN  IF done.raised THEN done
             ELSE RunOps(done.rows, done.results, ops, i + 1, idx, fault)

\* PostgreSQLStore.batch
Batch(ops, fault) ==
    /\ call = NoCall
    /\ LET run == IF fault.kind = "connect"
                  THEN [rows |-> table, results |-> <<>>, raised |-> TRUE]
                  ELSE RunOps(table, <<>>, ops, 1, index, fault)
           raised == run.raised \/ fault.kind = "commit"
       IN  /\ table' = Committed(table, run.rows, raised, fault.kind)
           /\ call' = [op |-> "batch", ops |-> ops, fault |-> fault,
                       raised |-> raised,
                       result |-> IF raised THEN <<>> ELSE run.results]
    /\ connections' =
          connections + LeftOpen(Opened(fault.kind), call'.raised)
    /\ UNCHANGED <<index, health_records, schema, setup, workflow, requests,
                   writers>>

\* the lists of at most n operations over the alphabet S
Batches(S, n) == UNION { [1..m -> S] : m \in 0..n }

----------------------------------------------------------------------------
(* search *)

Dot(x, y) ==
    LET RECURSIVE sum(_)
        sum(i) == IF i = 0 THEN 0 ELSE x[i] * y[i] + sum(i - 1)
    IN  sum(Len(x))

\* x is at least as close to q as y is, by cosine distance (<=>): the
\* vectors have no negative component, so the cosines compare as their
\* squares
AsClose(q, x, y) ==
    Dot(q, x) * Dot(q, x) * Dot(y, y) >= Dot(q, y) * Dot(q, y) * Dot(x, x)

\* 1 - distance, squared, as the fraction num / den
Distance(q, x) ==
    [num |-> Dot(q, x) * Dot(q, x), den |-> Dot(q, q) * Dot(x, x)]

\* WHERE embedding IS NOT NULL, the namespace forgotten
CandidatesAnywhere(rows, ns) == { r \in rows : ~r.embedding.isnull }

\* WHERE namespace = %s AND embedding IS NOT NULL
Candidates(rows, ns) ==
    { r \in rows : r.namespace = ns /\ ~r.embedding.isnull }

\* LIMIT %s without the ORDER BY: any rows, in any order
Unranked(cands, q, limit) ==
    LET m == IF Cardinality(cands) < limit THEN Cardinality(cands) ELSE limit
    IN  { s \in [1..m -> cands] : \A i, j \in 1..m : i < j => s[i] # s[j] }

\* ORDER BY distance LIMIT %s: every order the database may give the rows
\* of equal distance in
Ranked(cands, q, limit) ==
    LET m == IF Cardinality(cands) < limit THEN Cardinality(cands) ELSE limit
    IN  { s \in [1..m -> cands] :
            /\ \A i, j \in 1..m : i < j =>
                  /\ s[i] # s[j]
                  /\ AsClose(q, s[i].embedding.vec, s[j].embedding.vec)
            /\ \A r \in cands : (\A i \in 1..m : s[i] # r) =>
                  \A i \in 1..m :
                      AsClose(q, s[i].embedding.vec, r.embedding.vec) }

\* the result list search builds from the fetched rows
Hits(s, q) ==
    [i \in DOMAIN s |->
        [id |-> s[i].key, value |-> s[i].value,
         metadata |-> [distance |-> Distance(q, s[i].embedding.vec)]]]

Queries == { "hi", "yo" }
Limits == { 1, 5 }

\* PostgreSQLStore.search
Search(namespace, query, limit, fault) ==
    /\ call = NoCall
    /\ fault # "none" => HasEmbedder(index)
    /\ LET q == EmbedQuery(index, query)
           cands == Candidates(table, Join(namespace))
           \* `<=>` refuses vectors of different dimensions
           failed == \/ fault # "none"
                     \/ \E r \in cands : Len(r.embedding.vec) # Len(q)
           \* without an embedder search returns before it connects
           opened == IF HasEmbedder(index) THEN Opened(fault) ELSE 0
       IN  /\ \E s \in IF ~HasEmbedder(index) \/ failed THEN { <<>> }
                       ELSE Ranked(cands, q, limit) :
                 call' = [op |-> "search", namespace |-> namespace,
                          query |-> query, limit |-> limit, fault |-> fault,
                          sent |-> IF HasEmbedder(index)
                                      /\ fault \notin {"connect", "embed"}
                                   THEN Some(q) ELSE None,
                          raised |-> FALSE, result |-> Hits(s, q)]
           /\ connections' = connections + LeftOpen(opened, failed)
    /\ UNCHANGED <<index, table, health_records, schema, setup, workflow,
                   requests, writers>>

----------------------------------------------------------------------------

\* the caller takes the outcome of the call and moves on
Return ==
    /\ call # NoCall
    /\ call' = NoCall
    /\ UNCHANGED <<index, table, health_records, schema, setup, workflow,
                   requests, writers, connections>>

\* the calls of a caller that uses namespaces NS, keys KS and values VS, and
\* batches of at most n operations over OPS
StoreNext(NS, KS, VS, OPS, n) ==
    \/ /\ call = NoCall
       /\ \E ns \in NS, k \in KS, v \in VS, f \in WriteFaults :
             Put(ns, k, v, f)
    \/ /\ call = NoCall
       /\ \E ns \in NS, k \in KS, f \in ReadFaults : Get(ns, k, f)
    \/ /\ call = NoCall
       /\ \E ns \in NS, k \in KS, f \in WriteFaults : Delete(ns, k, f)
    \/ /\ call = NoCall
       /\ \E a \in {NoNamespace} \cup { GivenNamespace(ns) : ns \in NS },
             f \in WriteFaults : Clear(a, f)
    \/ /\ call = NoCall
       /\ \E ops \in Batches(OPS, n) : \E f \in BatchFaults(ops) :
             Batch(ops, f)
    \/ /\ call = NoCall
       /\ \E ns \in NS, q \in Queries, l \in Limits, f \in ReadFaults :
             Search(ns, q, l, f)
    \/ Return

\* operations of the short batches
ShortOps ==
    { PutOp(<<"a", "b">>, "k1", [data |-> JStr("hi")]),
      GetOp(<<"a/b">>, "k1"),
      DeleteOp(<<"a", "b">>, "k2") }

Next == StoreNext(Namespaces, Keys, Values, ShortOps, ShortBatchLen)

Spec == Init /\ [][Next]_vars

\* one record, written, read and deleted in long batches
BatchNamespaces == { <<"a", "b">> }
BatchKeys == { "k1" }
BatchValues == { [data |-> JStr("hi")], [note |-> JStr("yo")] }
BatchOps ==
    { PutOp(<<"a", "b">>, "k1", [data |-> JStr("hi")]),
      PutOp(<<"a", "b">>, "k1", [note |-> JStr("yo")]),
      GetOp(<<"a", "b">>, "k1"),
      DeleteOp(<<"a", "b">>, "k1"),
      SearchOp(<<"a", "b">>) }

NextBatch ==
    StoreNext(BatchNamespaces, BatchKeys, BatchValues, BatchOps, MaxBatchLen)

SpecBatch == Init /\ [][NextBatch]_vars

----------------------------------------------------------------------------
(* The multiply tool *)

\* a text, as the sequence of its characters
Digits == { "0", "1", "2", "3", "4", "5", "6", "7", "8", "9" }

DigitValue(c) ==
    CASE c = "0" -> 0 [] c = "1" -> 1 [] c = "2" -> 2 [] c = "3" -> 3
      [] c = "4" -> 4 [] c = "5" -> 5 [] c = "6" -> 6 [] c = "7" -> 7
      [] c = "8" -> 8 [] c = "9" -> 9

\* the last position of the run of digits that starts at i (i - 1 when the
\* character at i is no digit): \d+ is greedy
RECURSIVE DigitsEnd(_, _)
DigitsEnd(s, i) ==
    IF i <= Len(s) /\ s[i] \in Digits THEN DigitsEnd(s, i + 1) ELSE i - 1

\* the last position of the match of -?\d+(?:\.\d+)? that starts at p, or 0
MatchEnd(s, p) ==
    LET start == IF s[p] = "-" THEN p + 1 ELSE p
        whole == DigitsEnd(s, start)
        frac == DigitsEnd(s, whole + 2)
    IN  IF whole < start THEN 0
        ELSE IF whole + 1 <= Len(s) /\ s[whole + 1] = "." /\ frac >= whole + 2
             THEN frac
             ELSE whole

\* re.findall(number_pattern, query): the matches from left to right, none
\* overlapping another
RECURSIVE FindAll(_, _)
FindAll(s, p) ==
    IF p > Len(s) THEN <<>>
    ELSE IF MatchEnd(s, p) = 0 THEN FindAll(s, p + 1)
    ELSE <<SubSeq(s, p, MatchEnd(s, p))>> \o FindAll(s, MatchEnd(s, p) + 1)

\* the digits of a match and its decimal point, read as num / 10^scale
RECURSIVE Unsigned(_)
Unsigned(m) ==
    IF m = <<>> THEN [num |-> 0, scale |-> 0, seen |-> FALSE]
    ELSE LET c == m[Len(m)]
             init == Unsigned(SubSeq(m, 1, Len(m) - 1))
         IN  IF c = "." THEN [num |-> init.num, scale |-> 0, seen |-> TRUE]
             ELSE [num |-> init.num * 10 + DigitValue(c),
                   scale |-> IF init.seen THEN init.scale + 1 ELSE 0,
                   seen |-> init.seen]

\* float(match), as the fraction num / 10^scale
Float(m) ==
    IF Head(m) = "-"
    THEN [num |-> 0 - Unsigned(Tail(m)).num, scale |-> Unsigned(Tail(m)).scale]
    ELSE [num |-> Unsigned(m).num, scale |-> Unsigned(m).scale]

\* MultiplyTool.extract_numbers
ExtractNumbers(query) ==
    LET matches == FindAll(query, 1)
    IN  [i \in DOMAIN matches |-> Float(matches[i])]

\* result = 1; for num in numbers: result *= num
RECURSIVE Product(_)
Product(numbers) ==
    IF numbers = <<>> THEN [num |-> 1, scale |-> 0]
    ELSE LET rest == Product(SubSeq(numbers, 1, Len(numbers) - 1))
             last == numbers[Len(numbers)]
         IN  [num |-> rest.num * last.num, scale |-> rest.scale + last.scale]

\* a tool that is content with one number
MultiplyResultOfAny(query) ==
    LET numbers == ExtractNumbers(query)
    IN  IF Len(numbers) < 1 THEN None
        ELSE Some([numbers |-> numbers, result |-> Product(numbers)])

\* MultiplyTool.invoke and multiply_tool: the multiply_result of a query
MultiplyResult(query) ==
    LET numbers == ExtractNumbers(query)
    IN  IF Len(numbers) < 2 THEN None
        ELSE Some([numbers |-> numbers, result |-> Product(numbers)])

\* the queries the multiply tool is called with, character by character
MultiplyQueries ==
    { <<"1", "2", " ", "x", " ", "7">>,
      <<"h", "i">>,
      <<>>,
      <<"a", "g", "e", " ", "4", "1">>,
      <<"2", ".", "5", "-", "3">>,
      <<"-", "2", " ", "-", "3">>,
      <<"2", " ", "3", " ", "4">>,
      <<"3", ".", "1", "4", ".", "1", "5">>,
      <<"1", ".", " ", "x">> }

\* multiply_tool(state), called on a state with the query
MultiplyTool(query) ==
    /\ call = NoCall
    /\ call' = [op |-> "multiply_tool", query |-> query, raised |-> FALSE,
                result |-> [multiply_result |-> MultiplyResult(query)]]
    /\ UNCHANGED <<index, table, health_records, schema, setup, workflow,
                   requests, writers, connections>>

----------------------------------------------------------------------------
(* The retriever over health_records *)

\* self.vector_dim = 1536, larger than the 1024 of the memory store
DefaultVectorDim == VectorDim + 1

HealthTable(d, rows) == [exists |-> TRUE, dim |-> d, rows |-> rows]

\* a chunk of the corpus, with an embedding of the dimension of the table
Chunk(id, content, d, hot) ==
    [id |-> id, content |-> content,
     embedding |-> Vector([i \in 1..d |-> IF i = hot THEN 2 ELSE 1])]

\* the states ingestion can have left the table in
HealthTables ==
    { NoTable } \cup
    UNION { { HealthTable(d, rows) :
                rows \in SUBSET { Chunk("c1", "rest", d, 1),
                                  Chunk("c2", "diet", d, 2) } } :
            d \in { VectorDim, DefaultVectorDim } }

\* self.embeddings.embed_query(query), of a model with n components
OpenAIEmbed(n, query) ==
    [i \in 1..n |-> IF i = 1 THEN Len(query) + 1 ELSE 1]

\* the dimensions of the embedding models in use
ModelDims == { VectorDim, DefaultVectorDim }

\* lines 136-143: pad with zeros, or truncate, to vector_dim
Adjust(embedding, vector_dim) ==
    [i \in 1..vector_dim |-> IF i <= Len(embedding) THEN embedding[i] ELSE 0]

\* where similarity_search can fail: the connection of ensure_table_exists,
\* its statements, get_vector_dimension, the embedding call, the connection
\* of the search, its query
RetrieverFaults ==
    { "none", "connect", "ensure", "dimension", "embed", "connect2",
      "execute" }

\* PostgresRetriever.ensure_table_exists, on a fresh retriever: whether it
\* returns True, the table it leaves, and self.vector_dim
EnsureTableExists(tbl, fault) ==
    IF fault \in {"connect", "ensure"}
    THEN [ok |-> FALSE, tbl |-> tbl, vector_dim |-> DefaultVectorDim]
    ELSE IF tbl.exists
    THEN [ok |-> TRUE, tbl |-> tbl,
          vector_dim |-> IF fault = "dimension" THEN DefaultVectorDim
                         ELSE tbl.dim]
    ELSE [ok |-> TRUE, tbl |-> HealthTable(DefaultVectorDim, {}),
          vector_dim |-> DefaultVectorDim]

\* the rows of the result, with their similarity
Similar(s, q) ==
    [i \in DOMAIN s |->
        [id |-> s[i].id, content |-> s[i].content,
         similarity |-> Distance(q, s[i].embedding.vec)]]

\* PostgresRetriever.similarity_search: the outcomes it can have -- the
\* table it leaves, whether it raised, the vector it sent to the database
\* (None when it sent no query), and the list it returned
SimilaritySearchRuns(tbl, query, top_k, n, fault) ==
    LET ensured == EnsureTableExists(tbl, fault)
        now == ensured.tbl
        q == Adjust(OpenAIEmbed(n, query), ensured.vector_dim)
        empty == { [tbl |-> now, raised |-> FALSE, sent |-> None,
                    result |-> <<>>] }
    IN  IF ~ensured.ok THEN empty
        ELSE IF fault = "embed"
        THEN { [tbl |-> now, raised |-> TRUE, sent |-> None,
                result |-> <<>>] }
        ELSE IF fault = "connect2" THEN empty
        ELSE IF now.rows = {} THEN empty
        ELSE IF fault = "execute" \/ Len(q) # now.dim
        THEN { [tbl |-> now, raised |-> FALSE, sent |-> Some(q),
                result |-> <<>>] }
        ELSE { [tbl |-> now, raised |-> FALSE, sent |-> Some(q),
                result |-> Similar(s, q)] :
                  s \in Ranked(now.rows, q, top_k) }

\* the catalog object ensure_table_exists makes sure of with the table
ExtensionOf(tbl) == IF tbl.exists THEN { "extension" } ELSE {}

TopKs == { 1, 3 }

\* the queries of the workflow, character by character
WorkflowQueries ==
    { <<"1", "2", " ", "x", " ", "7">>,
      <<"h", "i">>,
      <<"a", "g", "e", " ", "4", "1">>,
      <<"2", ".", "5", "-", "3">> }

SimilaritySearch(query, top_k, n, fault) ==
    /\ call = NoCall
    /\ \E out \in SimilaritySearchRuns(health_records, query, top_k, n, fault) :
          /\ health_records' = out.tbl
          /\ schema' = schema \cup ExtensionOf(out.tbl)
          /\ call' = [op |-> "similarity_search", query |-> query,
                      top_k |-> top_k, n |-> n, fault |-> fault,
                      sent |-> out.sent,
                      raised |-> out.raised, result |-> out.result]
    /\ UNCHANGED <<index, table, setup, workflow, requests, writers,
                   connections>>

\* RetrieverTool.invoke and retriever_tool: the retriever_result of the
\* documents found
RetrieverResult(results) ==
    IF results # <<>>
    THEN [text |-> "Document", documents |-> results]
    ELSE [text |-> "No relevant health records found.", documents |-> <<>>]

\* the route call_tools derives from the two results
RouteAfterTools(multiply_result, retriever_result) ==
    LET has_multiply == multiply_result # None
        has_retriever == retriever_result # None
    IN  IF has_multiply /\ has_retriever THEN Some("multiply@retriever")
        ELSE IF has_multiply THEN Some("multiply")
        ELSE IF has_retriever THEN Some("retriever")
        ELSE None

\* a call_tools that decides the route after grading itself
CallToolsDeciding(tbl, query, n, fault) ==
    { [tbl |-> out.tbl, raised |-> out.raised,
       result |->
          IF out.raised THEN <<>>
          ELSE << [multiply_result |-> MultiplyResult(query),
                   retriever_result |-> Some(RetrieverResult(out.result)),
                   route_after_tools |-> None,
                   route_after_grade |-> Some("generate")] >>] :
      out \in SimilaritySearchRuns(tbl, query, 3, n, fault) }

\* call_tools of graph/flow.py: the outcomes it can have -- the table it
\* leaves, whether it raised, and the update of the state it returns
CallToolsRuns(tbl, query, n, fault) ==
    { LET multiply_result == MultiplyResult(query)
          retriever_result == Some(RetrieverResult(out.result))
      IN  [tbl |-> out.tbl, raised |-> out.raised,
           result |->
              IF out.raised THEN <<>>
              ELSE << [multiply_result |-> multiply_result,
                       retriever_result |-> retriever_result,
                       route_after_tools |->
                          RouteAfterTools(multiply_result,
                                          retriever_result)] >>] :
      out \in SimilaritySearchRuns(tbl, query, 3, n, fault) }

\* call_tools, called on a state with the query
CallTools(query, n, fault) ==
    /\ call = NoCall
    /\ \E out \in CallToolsRuns(health_records, query, n, fault) :
          /\ health_records' = out.tbl
          /\ schema' = schema \cup ExtensionOf(out.tbl)
          /\ call' = [op |-> "call_tools", query |-> query,
                      fault |-> fault, raised |-> out.raised,
                      result |-> out.result]
    /\ UNCHANGED <<index, table, setup, workflow, requests, writers,
                   connections>>

\* results.get(name) of ToolManager.invoke
ResultOf(results, name) == Field(results, name, None)

\* `if results.get("retriever_result") and ... != "No relevant health
\* records found."`
UsefulRetrieverResult(results) ==
    /\ ResultOf(results, "retriever_result") # None
    /\ ResultOf(results, "retriever_result")[1].text
          # "No relevant health records found."

\* lines 55-63 of tool_manager.py: active_tools and the route joined from it
ActiveTools(results) ==
    (IF ResultOf(results, "multiply_result") # None
     THEN <<"multiply">> ELSE <<>>)
    \o (IF UsefulRetrieverResult(results) THEN <<"retriever">> ELSE <<>>)

\* "@".join(active_tools) if active_tools else None
JoinTools(active_tools) ==
    IF active_tools = <<>> THEN None
    ELSE IF Len(active_tools) = 1 THEN Some(active_tools[1])
    ELSE Some(active_tools[1] \o "@" \o active_tools[2])

\* ToolManager.invoke: each tool runs inside a try, a tool that raises adds
\* nothing to results; the outcomes are the table left and the dict returned
ToolManagerInvoke(tbl, query, n, fault) ==
    { LET retrieved == IF out.raised THEN <<>>
                       ELSE [retriever_result |->
                                Some(RetrieverResult(out.result))]
          results == retrieved @@ [multiply_result |-> MultiplyResult(query)]
      IN  [tbl |-> out.tbl, raised |-> FALSE,
           result |->
              << results @@
                 [active_tools |-> ActiveTools(results),
                  route_after_tools |-> JoinTools(ActiveTools(results))] >>] :
      out \in SimilaritySearchRuns(tbl, query, 3, n, fault) }

\* call_tools of tools/tool_manager.py, called on a state with the query
ToolManagerCallTools(query, n, fault) ==
    /\ call = NoCall
    /\ \E out \in ToolManagerInvoke(health_records, query, n, fault) :
          /\ health_records' = out.tbl
          /\ schema' = schema \cup ExtensionOf(out.tbl)
          /\ call' = [op |-> "tool_manager", query |-> query,
                      fault |-> fault, raised |-> out.raised,
                      result |-> out.result]
    /\ UNCHANGED <<index, table, setup, workflow, requests, writers,
                   connections>>

InitRetriever ==
    /\ index = NoIndex
    /\ table = {}
    /\ call = NoCall
    /\ health_records \in HealthTables
    /\ schema = ExtensionOf(health_records)
    /\ setup = [p \in Procs |-> NotStarted]
    /\ workflow = NoRun
    /\ requests = NoRequests
    /\ writers = NoWriters
    /\ connections = 0

NextRetriever ==
    \/ /\ call = NoCall
       /\ \E q \in WorkflowQueries, k \in TopKs, n \in ModelDims,
             f \in RetrieverFaults : SimilaritySearch(q, k, n, f)
    \/ /\ call = NoCall
       /\ \E q \in WorkflowQueries, n \in ModelDims, f \in RetrieverFaults :
             CallTools(q, n, f)
    \/ /\ call = NoCall
       /\ \E q \in WorkflowQueries, n \in ModelDims, f \in RetrieverFaults :
             ToolManagerCallTools(q, n, f)
    \/ /\ call = NoCall
       /\ \E q \in MultiplyQueries : MultiplyTool(q)
    \/ Return

SpecRetriever == InitRetriever /\ [][NextRetriever]_vars

\* the memory store and the corpus side by side: stores with an embedder,
\* records of two namespaces, and the chunks ingestion has left
SearchNamespaces == { <<"a", "b">>, <<>> }
SearchValues == { [data |-> JStr("hi")], [note |-> JStr("yo")] }
SearchQueries == { <<"h", "i">>, <<"a", "g", "e", " ", "4", "1">> }

InitSearch ==
    /\ index \in { c \in IndexConfigs : HasEmbedder(c) }
    /\ table = {}
    /\ call = NoCall
    /\ health_records \in HealthTables
    /\ schema = SchemaOf(index)
    /\ setup = [p \in Procs |-> IF p = "p1" THEN Done ELSE NotStarted]
    /\ workflow = NoRun
    /\ requests = NoRequests
    /\ writers = NoWriters
    /\ connections = 0

NextSearch ==
    \/ /\ call = NoCall
       /\ \E ns \in SearchNamespaces, k \in Keys, v \in SearchValues,
             f \in WriteFaults : Put(ns, k, v, f)
    \/ /\ call = NoCall
       /\ \E ns \in SearchNamespaces, q \in Queries, l \in Limits,
             f \in ReadFaults : Search(ns, q, l, f)
    \/ /\ call = NoCall
       /\ \E q \in SearchQueries, k \in TopKs, n \in ModelDims,
             f \in RetrieverFaults : SimilaritySearch(q, k, n, f)
    \/ Return

SpecSearch == InitSearch /\ [][NextSearch]_vars

----------------------------------------------------------------------------
(* The workflow of graph/flow.py *)

UpperCase ==
    << "A", "B", "C", "D", "E", "F", "G", "H", "I", "J", "K", "L", "M",
       "N", "O", "P", "Q", "R", "S", "T", "U", "V", "W", "X", "Y", "Z" >>
LowerCase ==
    << "a", "b", "c", "d", "e", "f", "g", "h", "i", "j", "k", "l", "m",
       "n", "o", "p", "q", "r", "s", "t", "u", "v", "w", "x", "y", "z" >>

\* text.lower(), on a text given character by character
Lower(text) ==
    [i \in DOMAIN text |->
        IF \E j \in DOMAIN UpperCase : UpperCase[j] = text[i]
        THEN LowerCase[CHOOSE j \in DOMAIN UpperCase : UpperCase[j] = text[i]]
        ELSE text[i]]

\* word in text
Contains(text, word) ==
    \E i \in 1..(Len(text) - Len(word) + 1) :
        SubSeq(text, i, i + Len(word) - 1) = word

\* the replies of the language model to the agent's and to the grader's
\* prompt
AgentReplies ==
    { <<"T", "r", "u", "e">>, <<"f", "a", "l", "s", "e">>, <<"n", "o">> }
GradeReplies ==
    { <<"G", "e", "n", "e", "r", "a", "t", "e">>,
      <<"r", "e", "w", "r", "i", "t", "e">>,
      <<"o", "k">> }

\* the State a run starts with: graph.invoke({"query": query})
StartState(query) ==
    [query |-> query, tools_condition |-> None, multiply_result |-> None,
     retriever_result |-> None, route_after_tools |-> None,
     route_after_grade |-> None, final_output |-> None]

\* what the agent step returns
AgentUpdate(reply) ==
    [tools_condition |-> Some(Contains(Lower(reply), <<"t", "r", "u", "e">>))]

\* what grade_documents returns: without a tool result "generate", without
\* asking the model; otherwise by the reply
NeedsGrading(state) ==
    state.multiply_result # None \/ state.retriever_result # None

GradeUpdate(state, reply) ==
    IF ~NeedsGrading(state) THEN [route_after_grade |-> Some("generate")]
    ELSE IF Contains(Lower(reply),
                     <<"g", "e", "n", "e", "r", "a", "t", "e">>)
    THEN [route_after_grade |-> Some("generate")]
    ELSE [route_after_grade |-> Some("rewrite")]

\* the update a step returns, merged into the state
Merge(state, update) ==
    [f \in DOMAIN state |->
        IF f \in DOMAIN update THEN update[f] ELSE state[f]]

\* a graph with an edge from generate to rewrite
SuccessorThroughRewrite(node, state) ==
    IF node = "agent"
    THEN (IF state.tools_condition = Some(TRUE) THEN "call_tools" ELSE "END")
    ELSE IF node = "call_tools" THEN "grade_documents"
    ELSE IF node = "grade_documents"
    THEN LET route == IF state.route_after_grade = None THEN "generate"
                      ELSE state.route_after_grade[1]
         IN  IF route \in {"generate", "rewrite"} THEN route ELSE "failed"
    ELSE IF node = "generate" THEN "rewrite"
    ELSE "END"

\* a graph whose agent goes on to generate when no tools are needed
SuccessorToGenerate(node, state) ==
    IF node = "agent"
    THEN (IF state.tools_condition = Some(TRUE) THEN "call_tools"
          ELSE "generate")
    ELSE IF node = "call_tools" THEN "grade_documents"
    ELSE IF node = "grade_documents"
    THEN LET route == IF state.route_after_grade = None THEN "generate"
                      ELSE state.route_after_grade[1]
         IN  IF route \in {"generate", "rewrite"} THEN route ELSE "failed"
    ELSE "END"

\* the edges build_graph adds: the node that follows `node` on `state`
\* ("failed" where the mapping of a conditional edge has no entry)
Successor(node, state) ==
    IF node = "agent"
    THEN (IF state.tools_condition = Some(TRUE) THEN "call_tools" ELSE "END")
    ELSE IF node = "call_tools" THEN "grade_documents"
    ELSE IF node = "grade_documents"
    THEN LET route == IF state.route_after_grade = None THEN "generate"
                      ELSE state.route_after_grade[1]
         IN  IF route \in {"generate", "rewrite"} THEN route ELSE "failed"
    ELSE "END"

\* a step has run: its update is merged and the edge taken, or its exception
\* ends the run
Stepped(node, update, raised) ==
    LET state == Merge(workflow.state, update)
    IN  [node |-> IF raised THEN "failed" ELSE Successor(node, state),
         steps |-> Append(workflow.steps, node),
         state |-> IF raised THEN workflow.state ELSE state,
         raised |-> raised,
         reply |-> workflow.reply]

\* graph.invoke({"query": query})
Invoke(query) ==
    /\ workflow = NoRun
    /\ requests = NoRequests
    /\ writers = NoWriters
    /\ connections = 0
    /\ workflow' = [node |-> "agent", steps |-> <<>>,
                    state |-> StartState(query), raised |-> FALSE,
                    reply |-> None]
    /\ UNCHANGED <<index, table, call, health_records, schema, setup,
                   requests, writers, connections>>

\* the agent step; model.invoke can raise
Agent(reply, raises) ==
    /\ workflow.node = "agent"
    /\ workflow' = Stepped("agent", AgentUpdate(reply), raises)
    /\ UNCHANGED <<index, table, call, health_records, schema, setup,
                   requests, writers, connections>>

\* the call_tools step, with an embedding model of n components
CallToolsStep(n, fault) ==
    /\ workflow.node = "call_tools"
    /\ \E out \in CallToolsRuns(health_records, workflow.state.query, n,
                                fault) :
          /\ health_records' = out.tbl
          /\ schema' = schema \cup ExtensionOf(out.tbl)
          /\ workflow' =
                Stepped("call_tools",
                        IF out.raised THEN <<>> ELSE out.result[1],
                        out.raised)
    /\ UNCHANGED <<index, table, call, setup, requests, writers, connections>>

\* the grade_documents step
GradeDocuments(reply, raises) ==
    /\ workflow.node = "grade_documents"
    /\ raises => NeedsGrading(workflow.state)
    /\ workflow' =
          [Stepped("grade_documents", GradeUpdate(workflow.state, reply),
                   raises)
             EXCEPT !.reply = IF NeedsGrading(workflow.state) /\ ~raises
                              THEN Some(reply) ELSE None]
    /\ UNCHANGED <<index, table, call, health_records, schema, setup,
                   requests, writers, connections>>

\* the generate step: the answer of the model is the final output
Generate(raises) ==
    /\ workflow.node = "generate"
    /\ workflow' = Stepped("generate", [final_output |-> Some("generate")],
                           raises)
    /\ UNCHANGED <<index, table, call, health_records, schema, setup,
                   requests, writers, connections>>

\* the rewrite step
Rewrite(raises) ==
    /\ workflow.node = "rewrite"
    /\ workflow' = Stepped("rewrite", [final_output |-> Some("rewrite")],
                           raises)
    /\ UNCHANGED <<index, table, call, health_records, schema, setup,
                   requests, writers, connections>>

\* result.get("final_output", "No result generated") of the final state: a
\* field no step has written is not in it
ResultOfQuery(state) ==
    IF state.final_output = None THEN "No result generated"
    ELSE state.final_output[1]

\* graph.invoke returns the final state, or lets the exception out
Finish ==
    /\ workflow.node \in {"END", "failed"}
    /\ workflow' = NoRun
    /\ UNCHANGED <<index, table, call, health_records, schema, setup,
                   requests, writers, connections>>

InitWorkflow ==
    /\ index = NoIndex
    /\ table = {}
    /\ call = NoCall
    /\ health_records \in HealthTables
    /\ schema = ExtensionOf(health_records)
    /\ setup = [p \in Procs |-> NotStarted]
    /\ workflow = NoRun
    /\ requests = NoRequests
    /\ writers = NoWriters
    /\ connections = 0

\* the steps of a run
RunSteps ==
    \/ \E r \in AgentReplies, x \in BOOLEAN : Agent(r, x)
    \/ \E n \in ModelDims, f \in RetrieverFaults : CallToolsStep(n, f)
    \/ \E r \in GradeReplies, x \in BOOLEAN : GradeDocuments(r, x)
    \/ \E x \in BOOLEAN : Generate(x)
    \/ \E x \in BOOLEAN : Rewrite(x)
    \/ Finish

NextWorkflow ==
    \/ \E q \in WorkflowQueries : Invoke(q)
    \/ RunSteps

\* graph.invoke runs the steps one after the other until the run ends
SpecWorkflow == InitWorkflow /\ [][NextWorkflow]_vars /\ WF_vars(RunSteps)

----------------------------------------------------------------------------
(* /query requests served at the same time *)

\* a State instance that all requests share: the one of a request that is
\* being served
StateOfAny(r) ==
    IF \E o \in Requests \ {r} : requests[o] # NoRun
    THEN requests[CHOOSE o \in Requests \ {r} : requests[o] # NoRun].state
    ELSE requests[r].state

\* the State instance the steps of request r read and write: the dict that
\* graph.invoke was given for r, on the graph built for r
StateOf(r) == requests[r].state

\* a step of request r has run on `input`, what the step got from outside
Served(r, node, update, raised, input) ==
    LET state == Merge(StateOf(r), update)
    IN  [requests EXCEPT ![r] =
            [node |-> IF raised THEN "failed" ELSE Successor(node, state),
             steps |-> Append(@.steps, node),
             state |-> IF raised THEN StateOf(r) ELSE state,
             raised |-> raised,
             query |-> @.query,
             heard |-> Append(@.heard, input)]]

\* query_health_records: build_graph() and graph.invoke({"query": query})
QueryHealthRecords(r, query) ==
    /\ requests[r] = NoRun
    /\ requests' = [requests EXCEPT ![r] =
          [node |-> "agent", steps |-> <<>>, state |-> StartState(query),
           raised |-> FALSE, query |-> query, heard |-> <<>>]]
    /\ UNCHANGED <<index, table, call, health_records, schema, setup,
                   workflow, writers, connections>>

\* the agent step of request r
AgentOf(r, reply, raises) ==
    /\ requests[r].node = "agent"
    /\ requests' = Served(r, "agent", AgentUpdate(reply), raises,
                          [step |-> "agent", reply |-> Some(reply),
                           raised |-> raises])
    /\ UNCHANGED <<index, table, call, health_records, schema, setup,
                   workflow, writers, connections>>

\* the call_tools step of request r
CallToolsOf(r, n, fault) ==
    /\ requests[r].node = "call_tools"
    /\ \E out \in CallToolsRuns(health_records, StateOf(r).query, n, fault) :
          /\ health_records' = out.tbl
          /\ schema' = schema \cup ExtensionOf(out.tbl)
          /\ requests' =
                Served(r, "call_tools",
                       IF out.raised THEN <<>> ELSE out.result[1],
                       out.raised,
                       [step |-> "call_tools", reply |-> out.result,
                        raised |-> out.raised])
    /\ UNCHANGED <<index, table, call, setup, workflow, writers,
                   connections>>

\* the grade_documents step of request r
GradeDocumentsOf(r, reply, raises) ==
    /\ requests[r].node = "grade_documents"
    /\ requests' = Served(r, "grade_documents",
                          GradeUpdate(StateOf(r), reply), raises,
                          [step |-> "grade_documents", reply |-> Some(reply),
                           raised |-> raises])
    /\ UNCHANGED <<index, table, call, health_records, schema, setup,
                   workflow, writers, connections>>

\* the generate step of request r
GenerateOf(r, raises) ==
    /\ requests[r].node = "generate"
    /\ requests' = Served(r, "generate", [final_output |-> Some("generate")],
                          raises,
                          [step |-> "generate", reply |-> None,
                           raised |-> raises])
    /\ UNCHANGED <<index, table, call, health_records, schema, setup,
                   workflow, writers, connections>>

\* the rewrite step of request r
RewriteOf(r, raises) ==
    /\ requests[r].node = "rewrite"
    /\ requests' = Served(r, "rewrite", [final_output |-> Some("rewrite")],
                          raises,
                          [step |-> "rewrite", reply |-> None,
                           raised |-> raises])
    /\ UNCHANGED <<index, table, call, health_records, schema, setup,
                   workflow, writers, connections>>

\* the response of request r is sent, or its exception let out
Respond(r) ==
    /\ requests[r].node \in { "END", "failed" }
    /\ requests' = [requests EXCEPT ![r] = NoRun]
    /\ UNCHANGED <<index, table, call, health_records, schema, setup,
                   workflow, writers, connections>>

\* the queries of the requests
RequestQueries ==
    { <<"1", "2", " ", "x", " ", "7">>, <<"h", "i">> }

\* no corpus yet, or a corpus of two chunks
InitQueries ==
    /\ index = NoIndex
    /\ table = {}
    /\ call = NoCall
    /\ health_records \in
          { t \in HealthTables : t.exists =>
                t.dim = VectorDim /\ Cardinality(t.rows) = 2 }
    /\ schema = ExtensionOf(health_records)
    /\ setup = [p \in Procs |-> NotStarted]
    /\ workflow = NoRun
    /\ requests = NoRequests
    /\ writers = NoWriters
    /\ connections = 0

NextQueries ==
    \/ \E r \in Requests, q \in RequestQueries : QueryHealthRecords(r, q)
    \/ \E r \in Requests, reply \in AgentReplies, x \in BOOLEAN :
          AgentOf(r, reply, x)
    \/ \E r \in Requests, n \in ModelDims, f \in RetrieverFaults :
          CallToolsOf(r, n, f)
    \/ \E r \in Requests, reply \in GradeReplies, x \in BOOLEAN :
          GradeDocumentsOf(r, reply, x)
    \/ \E r \in Requests, x \in BOOLEAN : GenerateOf(r, x)
    \/ \E r \in Requests, x \in BOOLEAN : RewriteOf(r, x)
    \/ \E r \in Requests : Respond(r)

SpecQueries == InitQueries /\ [][NextQueries]_vars

----------------------------------------------------------------------------
(* Callers that put at the same time *)

\* a put that is under way: the statement it is at, its arguments, the fault
\* the environment has in store for it, and the embedding it has computed
InPut(pc, namespace, key, value, fault, embedding) ==
    [pc |-> pc, namespace |-> namespace, key |-> key, value |-> value,
     fault |-> fault, embedding |-> embedding, stamp |-> 0]

\* the puts that have committed since the callers last settled
CommittedPuts == { w \in Writers : writers[w].pc = "done" }

\* another open transaction has written the row of (namespace, key) and
\* holds its lock: the statement waits until that transaction ends
Blocked(w) ==
    \E o \in Writers \ {w} :
        /\ writers[o].pc = "commit"
        /\ Join(writers[o].namespace) = Join(writers[w].namespace)
        /\ writers[o].key = writers[w].key

\* a statement with ON CONFLICT DO NOTHING: the row that is there stays
CommitPutKeepingFirst(rows, me) ==
    InsertOrKeep(rows, Join(me.namespace), me.key, me.value, me.embedding)

\* what the committed transaction of a put leaves in the table: the row of
\* its INSERT ... ON CONFLICT DO UPDATE
CommitPut(rows, me) ==
    UpsertRow(rows, Join(me.namespace), me.key, me.value, me.embedding)

\* the except and finally branches of put: rollback, close, raise
PutFailed(me) == [me EXCEPT !.pc = "failed"]

\* put, up to psycopg2.connect
PutConnect(w, namespace, key, value, fault) ==
    /\ writers[w] = Idle
    /\ fault = "embed" => HasEmbedder(index) /\ IsStr(GetData(value))
    /\ writers' = [writers EXCEPT ![w] =
          InPut(IF fault = "connect" THEN "failed" ELSE "embed",
                namespace, key, value, fault, NullEmbedding)]
    /\ connections' = connections + Opened(fault)
    /\ UNCHANGED <<index, table, call, health_records, schema, setup,
                   workflow, requests>>

\* lines 106-112: the embedding of the value
PutEmbed(w) ==
    /\ writers[w].pc = "embed"
    /\ IF writers[w].fault = "embed"
       THEN /\ writers' = [writers EXCEPT ![w] = PutFailed(@)]
            /\ connections' = connections - 1 + LeftOpen(1, TRUE)
       ELSE /\ writers' = [writers EXCEPT ![w] =
                  [@ EXCEPT !.pc = "execute",
                            !.embedding =
                                EmbeddingFor(index, writers[w].value)]]
            /\ connections' = connections
    /\ UNCHANGED <<index, table, call, health_records, schema, setup,
                   workflow, requests>>

\* cursor.execute of the upsert
PutExecute(w) ==
    /\ writers[w].pc = "execute"
    /\ ~Blocked(w)
    /\ IF writers[w].fault = "execute" \/ ~FitsColumn(writers[w].embedding)
       THEN /\ writers' = [writers EXCEPT ![w] = PutFailed(@)]
            /\ connections' = connections - 1 + LeftOpen(1, TRUE)
       ELSE /\ writers' = [writers EXCEPT ![w] = [@ EXCEPT !.pc = "commit"]]
            /\ connections' = connections
    /\ UNCHANGED <<index, table, call, health_records, schema, setup,
                   workflow, requests>>

\* conn.commit(), and conn.close() in the finally branch
PutCommit(w) ==
    /\ writers[w].pc = "commit"
    /\ IF writers[w].fault = "commit"
       THEN /\ writers' = [writers EXCEPT ![w] = PutFailed(@)]
            /\ table' = table
       ELSE /\ writers' = [writers EXCEPT ![w] =
                  [@ EXCEPT !.pc = "done",
                            !.stamp = Cardinality(CommittedPuts) + 1]]
            /\ table' = CommitPut(table, writers[w])
    /\ connections' = connections - 1
                          + LeftOpen(1, writers[w].fault = "commit")
    /\ UNCHANGED <<index, call, health_records, schema, setup, workflow,
                   requests>>

\* every put has returned or raised
Settled == \A w \in Writers : writers[w].pc \in { "idle", "done", "failed" }

\* the callers look at what their puts have left and go on
Settle ==
    /\ Settled
    /\ writers # NoWriters
    /\ writers' = NoWriters
    /\ UNCHANGED <<index, table, call, health_records, schema, setup,
                   workflow, requests, connections>>

\* the records the callers write: two keys of one namespace, two texts and
\* a value without text
PutNamespaces == { <<"a", "b">> }
PutValues ==
    { [data |-> JStr("hi")], [data |-> JStr("yo")], [data |-> JNum("7")] }

NextPuts ==
    \/ \E w \in Writers, ns \in PutNamespaces, k \in Keys, v \in PutValues,
          f \in WriteFaults : PutConnect(w, ns, k, v, f)
    \/ \E w \in Writers : PutEmbed(w)
    \/ \E w \in Writers : PutExecute(w)
    \/ \E w \in Writers : PutCommit(w)
    \/ Settle

SpecPuts == Init /\ [][NextPuts]_vars

----------------------------------------------------------------------------
(* The chat service of demo1 *)

\* the memories a user can have stored
MaxMemories == 2

\* the user ids of the requests: any strings
UserIds == { "u", "u/v", "" }

\* the last message of a request, character by character: one that asks to
\* remember (the two characters ji and zhu of the word the step looks for),
\* one that does not
ChatMessages == { <<"ji", "zhu", "h", "i">>, <<"h", "i">> }

\* str(content), as the text the embedder is given
Str(chars) == IF chars = <<"h", "i">> THEN "hi" ELSE "yo"

\* a namespace that does not name the user
SharedNamespace(user_id) == <<"memories">>

\* namespace = ("memories", config["configurable"]["user_id"])
MemoryNamespace(user_id) == <<"memories", user_id>>

\* str(uuid.uuid4()): an id nobody has drawn before, written here with the
\* user whose request drew it
Uuids(rows, user_id) ==
    { [by |-> user_id, n |-> i] : i \in 1..MaxMemories }
        \ { r.key : r \in rows }

\* the memory the step stores, the same text for every request
Memory == [data |-> JStr("nan")]

\* store.search(namespace, query=...): the lists it can return
SearchResults(idx, rows, namespace, query, limit, fault) ==
    LET q == EmbedQuery(idx, query)
        cands == Candidates(rows, Join(namespace))
        failed == \/ fault # "none"
                  \/ \E r \in cands : Len(r.embedding.vec) # Len(q)
    IN  IF ~HasEmbedder(idx) \/ failed THEN { <<>> }
        ELSE { Hits(s, q) : s \in Ranked(cands, q, limit) }

\* the chatbot step, serving a request of user_id: it searches the memories
\* of the namespace, stores a memory when the message asks to remember (a
\* put that fails ends the step), and asks the model
Chatbot(user_id, message, uuid, search_fault, put_fault) ==
    /\ call = NoCall
    /\ LET namespace == MemoryNamespace(user_id)
           remember == Contains(Lower(message), <<"ji", "zhu">>)
           embedding == EmbeddingFor(index, Memory)
           raised == remember /\ (put_fault # "none" \/ ~FitsColumn(embedding))
           rows == UpsertRow(table, Join(namespace), uuid, Memory, embedding)
       IN  /\ uuid \in Uuids(table, user_id)
           /\ ~remember => put_fault = "none"
           /\ table' = IF remember
                        THEN Committed(table, rows, raised, put_fault)
                        ELSE table
           /\ \E memories \in SearchResults(index, table, namespace,
                                             Str(message), 5, search_fault) :
                 call' = [op |-> "chatbot", user_id |-> user_id,
                          message |-> message, raised |-> raised,
                          memories |-> memories,
                          stored |-> IF remember /\ ~raised THEN Some(uuid)
                                     ELSE None]
    /\ UNCHANGED <<index, health_records, schema, setup, workflow, requests,
                   writers, connections>>

\* the store the service constructs at startup has an embedder
InitChat ==
    /\ Init
    /\ HasEmbedder(index)

NextChat ==
    \/ /\ call = NoCall
       /\ \E u \in UserIds, m \in ChatMessages, sf \in ReadFaults,
             pf \in WriteFaults : \E id \in Uuids(table, u) :
                Chatbot(u, m, id, sf, pf)
    \/ Return

SpecChat == InitChat /\ [][NextChat]_vars

----------------------------------------------------------------------------
(* Ingestion through /ingest *)

\* the most chunks a document is split into
MaxChunks == 2

\* the texts of the chunks
ChunkTexts == { "rest", "diet" }

\* str(uuid.uuid4()) of the chunk at position i
NewIds == << "n1", "n2", "n3" >>

\* self.embeddings.embed_documents([text])[0], of a model with n components
EmbedDocuments(n, text) ==
    [i \in 1..n |->
        IF (text = "rest" /\ i = 1) \/ (text # "rest" /\ i = 2) THEN 2 ELSE 1]

\* where an ingestion can fail: the connection of setup_database, one of its
\* statements, the loading of the PDF, the connection of embed_and_store,
\* the embedding or the INSERT of the chunk at position `at`, the commit
IngestFaults(documents) ==
    { [kind |-> k, at |-> 0] :
        k \in { "none", "connect", "setup", "pdf", "connect2", "commit" } }
    \cup { [kind |-> k, at |-> i] :
             k \in { "embed", "insert" }, i \in DOMAIN documents }

\* DatabaseBuilder.setup_database: whether it returns True, and the table it
\* leaves -- DROP TABLE IF EXISTS and CREATE TABLE in one transaction
SetupDatabase(tbl, fault) ==
    IF fault.kind \in { "connect", "setup" }
    THEN [ok |-> FALSE, tbl |-> tbl]
    ELSE [ok |-> TRUE, tbl |-> HealthTable(VectorDim, {})]

\* the loop of embed_and_store from position i on, in its transaction
RECURSIVE StoreChunks(_, _, _, _, _)
StoreChunks(rows, documents, i, n, fault) ==
    IF i > Len(documents) THEN [rows |-> rows, raised |-> FALSE]
    ELSE IF fault.kind \in { "embed", "insert" } /\ fault.at = i
    THEN [rows |-> rows, raised |-> TRUE]
    ELSE LET embedding == Vector(EmbedDocuments(n, documents[i]))
         IN  IF ~FitsColumn(embedding)
             THEN [rows |-> rows, raised |-> TRUE]
             ELSE StoreChunks(
                    rows \cup { [id |-> NewIds[i], content |-> documents[i],
                                 embedding |-> embedding] },
                    documents, i + 1, n, fault)

\* DatabaseBuilder.embed_and_store: whether it returns True, and the table
EmbedAndStore(tbl, documents, n, fault) ==
    IF documents = <<>> \/ fault.kind = "connect2"
    THEN [ok |-> FALSE, tbl |-> tbl]
    ELSE LET stored == StoreChunks(tbl.rows, documents, 1, n, fault)
             raised == stored.raised \/ fault.kind = "commit"
         IN  [ok |-> ~raised,
              tbl |-> [tbl EXCEPT
                         !.rows = Committed(tbl.rows, stored.rows, raised,
                                            fault.kind)]]

\* ingest_document of app.py, on a PDF that splits into `documents`, with an
\* embedding model of n components: HTTP 500 when a step returns False
IngestDocument(documents, n, fault) ==
    /\ call = NoCall
    /\ LET setup_done == SetupDatabase(health_records, fault)
           splits == IF fault.kind = "pdf" THEN <<>> ELSE documents
           stored == EmbedAndStore(setup_done.tbl, splits, n, fault)
           success == setup_done.ok /\ stored.ok
       IN  /\ health_records' = IF setup_done.ok THEN stored.tbl
                                 ELSE setup_done.tbl
           /\ schema' = schema \cup ExtensionOf(health_records')
           /\ call' = [op |-> "ingest", documents |-> documents,
                       fault |-> fault, raised |-> ~success,
                       result |-> IF success THEN Some(Len(documents))
                                  ELSE None]
    /\ UNCHANGED <<index, table, setup, workflow, requests, writers,
                   connections>>

\* the chunk lists of the PDFs that are ingested
Documents == UNION { [1..m -> ChunkTexts] : m \in 0..MaxChunks }

NextIngest ==
    \/ /\ call = NoCall
       /\ \E d \in Documents, n \in ModelDims : \E f \in IngestFaults(d) :
             IngestDocument(d, n, f)
    \/ /\ call = NoCall
       /\ \E q \in SearchQueries, k \in TopKs, n \in ModelDims,
             f \in RetrieverFaults : SimilaritySearch(q, k, n, f)
    \/ Return

SpecIngest == InitRetriever /\ [][NextIngest]_vars

----------------------------------------------------------------------------
(* Processes that start on one database *)

\* PostgresRetriever.ensure_table_exists, called on its own
EnsureTable(fault) ==
    /\ call = NoCall
    /\ LET ensured == EnsureTableExists(health_records, fault)
       IN  /\ health_records' = ensured.tbl
           /\ schema' = schema \cup ExtensionOf(ensured.tbl)
           /\ call' = [op |-> "ensure_table_exists", fault |-> fault,
                       raised |-> FALSE, result |-> ensured.ok,
                       vector_dim |-> ensured.vector_dim]
    /\ UNCHANGED <<index, table, setup, workflow, requests, writers,
                   connections>>

\* the record the processes write, read and delete once they hold a store
SchemaNamespaces == { <<"a", "b">> }
SchemaKeys == { "k1" }
SchemaValues == { [data |-> JStr("hi")], [data |-> JNum("7")] }

\* a database nothing has been created in, or one that holds the corpus
InitSchema ==
    /\ index \in IndexConfigs
    /\ table = {}
    /\ call = NoCall
    /\ health_records \in
          { t \in HealthTables : t.exists => Cardinality(t.rows) = 2 }
    /\ schema = ExtensionOf(health_records)
    /\ setup = [p \in Procs |-> NotStarted]
    /\ workflow = NoRun
    /\ requests = NoRequests
    /\ writers = NoWriters
    /\ connections = 0

NextSchema ==
    \/ /\ call = NoCall
       /\ \E p \in Procs, f \in SetupFaults : Construct(p, f)
    \/ /\ call = NoCall
       /\ \E p \in Procs : CreateExtension(p)
    \/ /\ call = NoCall
       /\ \E p \in Procs : CreateTable(p)
    \/ /\ call = NoCall
       /\ \E p \in Procs : CreateIndex(p)
    \/ /\ call = NoCall
       /\ \E p \in Procs : Commit(p)
    \/ /\ call = NoCall /\ HasStore
       /\ \E ns \in SchemaNamespaces, k \in SchemaKeys, v \in SchemaValues,
             f \in WriteFaults : Put(ns, k, v, f)
    \/ /\ call = NoCall /\ HasStore
       /\ \E ns \in SchemaNamespaces, k \in SchemaKeys, f \in ReadFaults :
             Get(ns, k, f)
    \/ /\ call = NoCall /\ HasStore
       /\ \E ns \in SchemaNamespaces, k \in SchemaKeys, f \in WriteFaults :
             Delete(ns, k, f)
    \/ /\ call = NoCall
       /\ \E f \in { "none", "connect", "ensure", "dimension" } :
             EnsureTable(f)
    \/ Return

SpecSchema == InitSchema /\ [][NextSchema]_vars

----------------------------------------------------------------------------
(* Every operation of the store, with the connections it holds *)

\* the operations that are under way and past their connect
SetupsUnderWay ==
    { p \in Procs :
        setup[p].pc \in { "extension", "table", "index", "commit" } }
PutsUnderWay ==
    { w \in Writers : writers[w].pc \in { "embed", "execute", "commit" } }

\* the operations of a batch handed to the store next to the other calls
ConnectionOps ==
    { PutOp(<<"a", "b">>, "k1", [data |-> JStr("hi")]),
      DeleteOp(<<"a", "b">>, "k1") }

\* a store without an index, or with an embedder that fits the column
InitConnections ==
    /\ InitSchema
    /\ health_records = NoTable
    /\ index.given => HasEmbedder(index) /\ index.dims = VectorDim

NextConnections ==
    \/ /\ call = NoCall
       /\ \E p \in Procs, f \in SetupFaults : Construct(p, f)
    \/ /\ call = NoCall
       /\ \E p \in Procs : CreateExtension(p)
    \/ /\ call = NoCall
       /\ \E p \in Procs : CreateTable(p)
    \/ /\ call = NoCall
       /\ \E p \in Procs : CreateIndex(p)
    \/ /\ call = NoCall
       /\ \E p \in Procs : Commit(p)
    \/ /\ HasStore
       /\ StoreNext(SchemaNamespaces, SchemaKeys, SchemaValues,
                    ConnectionOps, 1)
    \/ /\ call = NoCall /\ HasStore
       /\ \E ns \in SchemaNamespaces, k \in SchemaKeys, v \in SchemaValues,
             f \in WriteFaults : PutConnect("w1", ns, k, v, f)
    \/ /\ call = NoCall
       /\ \E w \in Writers : PutEmbed(w)
    \/ /\ call = NoCall
       /\ \E w \in Writers : PutExecute(w)
    \/ /\ call = NoCall
       /\ \E w \in Writers : PutCommit(w)
    \/ /\ call = NoCall
       /\ Settle

SpecConnections == InitConnections /\ [][NextConnections]_vars

----------------------------------------------------------------------------
(* Properties of the store *)

IsCall(c, op) == c.op = op
Succeeded(c, op) == c.op = op /\ ~c.raised

\* C1: namespace isolation -- a put under one namespace changes nothing that
\* get or search see under any other namespace (no record written under A
\* becomes visible under B, none written under B is overwritten from A).
C1_NamespaceIsolation ==
    [][ Succeeded(call', "put") =>
          \A B \in Namespaces \ { call'.namespace } :
              /\ \A k \in Keys :
                    GetResult(table', B, k, "none")
                        = GetResult(table, B, k, "none")
              /\ Candidates(table', Join(B)) = Candidates(table, Join(B)) ]_vars

\* C2: round trip -- in the state a successful put(namespace, key, value)
\* leaves, get(namespace, key) returns exactly value.
C2_RoundTrip ==
    Succeeded(call, "put") =>
        GetResult(table, call.namespace, call.key, "none") = Some(call.value)

\* a put has replaced the value another put had stored under the same key,
\* and get returns the new one
C2_Witness ==
    /\ Succeeded(call, "put")
    /\ call.namespace = <<"a", "b">>
    /\ call.value = [data |-> JNum("7")]
    /\ GetResult(table, <<"a", "b">>, call.key, "none") = Some(call.value)
    /\ Cardinality(table) = 2

\* the rows of one (namespace, key)
RowsOf(rows, ns, key) == { r \in rows : r.namespace = ns /\ r.key = key }

\* C3: put is an upsert -- the table never holds two rows of one
\* (namespace, key); a successful put leaves exactly one row for its key and
\* that row holds the value put; and a put of the value the key already
\* holds changes the result of no get.
C3_Upsert ==
    /\ [](\A r1, r2 \in table :
             r1.namespace = r2.namespace /\ r1.key = r2.key => r1 = r2)
    /\ [](Succeeded(call, "put") =>
             \E r \in table :
                 /\ RowsOf(table, Join(call.namespace), call.key) = { r }
                 /\ r.value = call.value)
    /\ [][ ( /\ Succeeded(call', "put")
             /\ GetResult(table, call'.namespace, call'.key, "none")
                    = Some(call'.value) ) =>
           \A n \in Namespaces, k \in Keys :
               GetResult(table', n, k, "none") = GetResult(table, n, k, "none")
       ]_vars

\* a put onto a table that holds other rows, one of them under the same
\* flattened namespace
C3_Witness ==
    /\ Succeeded(call, "put")
    /\ call.key = "k1"
    /\ Cardinality(table) = 3
    /\ \E r \in table : r.namespace = Join(call.namespace) /\ r.key = "k2"

\* the value the key of the get at position i holds once the puts and
\* deletes before i are applied to `rows`: that of the last such write to
\* the key, or what `rows` holds when there is none
ValueBefore(rows, ops, i) ==
    LET same(j) == /\ ops[j].op \in {"put", "delete"}
                   /\ ops[j].namespace = ops[i].namespace
                   /\ ops[j].key = ops[i].key
        writes == { j \in 1..(i - 1) : same(j) }
        last == CHOOSE j \in writes : \A h \in writes : h <= j
    IN  IF writes = {}
        THEN GetResult(rows, ops[i].namespace, ops[i].key, "none")
        ELSE IF ops[last].op = "put" THEN Some(ops[last].value) ELSE None

\* C4: a batch of gets, puts and deletes takes effect in the caller's order --
\* slot i of the result is, for a get, the value its key holds after the
\* writes before position i, and None for a put or a delete.
C4_BatchOrder ==
    [][ ( /\ Succeeded(call', "batch")
          /\ \A i \in DOMAIN call'.ops : KnownOp(call'.ops[i]) ) =>
        /\ Len(call'.result) = Len(call'.ops)
        /\ \A i \in DOMAIN call'.ops :
              call'.result[i] =
                  IF call'.ops[i].op = "get"
                  THEN ValueBefore(table, call'.ops, i)
                  ELSE None ]_vars

\* batch([put(k1, v1), get(k1), delete(k1), get(k1)]) = [None, v1, None, None]
C4_Witness ==
    /\ Succeeded(call, "batch")
    /\ call.ops = << PutOp(<<"a", "b">>, "k1", [data |-> JStr("hi")]),
                     GetOp(<<"a", "b">>, "k1"),
                     DeleteOp(<<"a", "b">>, "k1"),
                     GetOp(<<"a", "b">>, "k1") >>
    /\ call.result = << None, Some([data |-> JStr("hi")]), None, None >>

\* C5: batch returns one result slot per operation, whatever the 'op' field
\* of the operation says.
C5_OneSlotPerOp ==
    Succeeded(call, "batch") => Len(call.result) = Len(call.ops)

\* C6: writes are all-or-nothing and fail loudly -- a write (put, delete,
\* clear, batch) in which anything fails raises, and a write that raises
\* leaves the table as it was before the call.
C6_AllOrNothing ==
    [][ call'.op \in {"put", "delete", "clear", "batch"} =>
          /\ (IF call'.op = "batch" THEN call'.fault.kind # "none"
              ELSE call'.fault # "none") => call'.raised
          /\ call'.raised => table' = table ]_vars

\* a batch whose first operation is a put and whose later operation failed:
\* the put is not in the table
C6_Witness ==
    /\ IsCall(call, "batch")
    /\ call.raised
    /\ call.fault.kind = "execute"
    /\ call.fault.at > 1
    /\ call.ops[1].op = "put"
    /\ table = {}

\* C7: get and search never raise -- with a fault in the connection, the
\* embedding call or the query, get returns None and search the empty list,
\* and neither changes the table.
C7_ReadsDegrade ==
    [][ call'.op \in {"get", "search"} =>
          /\ ~call'.raised
          /\ call'.fault # "none" => call'.result = <<>>
          /\ table' = table ]_vars

\* a search whose embedding call failed, on a table with rows to find
C7_Witness ==
    /\ IsCall(call, "search")
    /\ call.fault = "embed"
    /\ call.result = <<>>
    /\ Candidates(table, Join(call.namespace)) # {}

\* C8: similarity_search never raises -- with the database or the embedding
\* model out of reach, or a failing query, it returns the empty list, and
\* call_tools completes.
C8_RetrieverDegrades ==
    /\ IsCall(call, "similarity_search") =>
          /\ ~call.raised
          /\ call.fault \in {"connect", "ensure", "embed", "connect2",
                             "execute"} => call.result = <<>>
    /\ IsCall(call, "call_tools") => ~call.raised

\* C9: clear with a namespace deletes the rows of that namespace and no
\* other row; only clear without a namespace empties the table.
C9_ClearNamespace ==
    [][ (Succeeded(call', "clear") /\ call'.arg.given) =>
          table' = { r \in table : r.namespace # Join(call'.arg.namespace) }
      ]_vars

\* C10: delete is idempotent -- without a fault it completes, whether or not
\* the key is there; after it get returns None for the key; and every row
\* of another (namespace, key) is as it was.
C10_DeleteIdempotent ==
    [][ IsCall(call', "delete") =>
          /\ call'.fault = "none" => ~call'.raised
          /\ ~call'.raised =>
                /\ GetResult(table', call'.namespace, call'.key, "none") = None
                /\ table' \subseteq table
                /\ \A r \in table :
                      ~( r.namespace = Join(call'.namespace)
                         /\ r.key = call'.key ) => r \in table' ]_vars

\* a delete of a key that is not there, next to a row of another key
C10_Witness ==
    /\ Succeeded(call, "delete")
    /\ call.key = "k1"
    /\ Cardinality(table) = 3
    /\ \E r \in table : r.key = "k2" /\ r.namespace = Join(call.namespace)

----------------------------------------------------------------------------
(* Properties of similarity search *)

\* of two values of Distance, a is no farther from the query than b
NoFarther(a, b) == a.num * b.den >= b.num * a.den

C12_SearchEmpty ==
    IsCall(call, "search") =>
        /\ ~call.raised
        /\ ( \/ ~HasEmbedder(index)
             \/ table = {}
             \/ \A r \in table : r.namespace # Join(call.namespace) ) =>
              call.result = <<>>

\* a search, with an embedder and without a fault, of a namespace that holds
\* nothing while another namespace holds a record with an embedding
C12_Witness ==
    /\ IsCall(call, "search")
    /\ HasEmbedder(index)
    /\ call.fault = "none"
    /\ call.result = <<>>
    /\ \A r \in table : r.namespace # Join(call.namespace)
    /\ \E r \in table : ~r.embedding.isnull

\* the value holds a text under "data"
HasText(value) == "data" \in DOMAIN value /\ IsStr(value["data"])

\* C13: a record written by put or batch holds an embedding if and only if
\* an embedder is configured and its value holds a string under 'data'; a
\* record without such a field is never returned by search.
C13_EmbeddingIffText ==
    /\ \A r \in table :
          ~r.embedding.isnull <=> (HasEmbedder(index) /\ HasText(r.value))
    /\ IsCall(call, "search") =>
          \A i \in DOMAIN call.result : HasText(call.result[i].value)

\* C14: every embedding written has the dimension of the column, and a
\* vector of another length is padded or truncated before the write, so that
\* put and batch never fail on the dimension: without a fault they complete.
C14_DimensionConforms ==
    /\ \A r \in table : FitsColumn(r.embedding)
    /\ (IsCall(call, "put") /\ call.fault = "none") => ~call.raised
    /\ (IsCall(call, "batch") /\ call.fault.kind = "none") => ~call.raised

\* C15: the vector a similarity search sends to the database has the
\* dimension d of the column -- the computed components, cut to the first d
\* or followed by zeros up to d -- in search and in similarity_search.
C15_QueryDimension ==
    /\ (IsCall(call, "search") /\ call.sent # None) =>
          call.sent = Some(Adjust(EmbedQuery(index, call.query), VectorDim))
    /\ (IsCall(call, "similarity_search") /\ call.sent # None) =>
          call.sent = Some(Adjust(OpenAIEmbed(call.n, call.query),
                                  health_records.dim))

----------------------------------------------------------------------------
(* Properties of schema setup *)

\* C16: schema setup is idempotent -- a statement of _setup_tables that runs
\* when the table and (for a store with an index configuration) the index
\* exist, in any interleaving with the setup of another process, does not
\* fail and leaves the catalog and the rows as they are; ensure_table_exists
\* on an existing table returns True and leaves the table and its rows as
\* they are.
C16_SetupIdempotent ==
    [][ /\ \A p \in Procs :
              ( /\ SchemaOf(index) \subseteq schema
                /\ ~setup[p].waited
                /\ setup'[p] # setup[p]
                /\ setup'[p].fault = "none" ) =>
                    /\ setup'[p].pc # "failed"
                    /\ schema' = schema
                    /\ table' = table
        /\ ( /\ IsCall(call', "ensure_table_exists")
             /\ call = NoCall
             /\ health_records.exists ) =>
                /\ ~call'.raised
                /\ call'.fault \in {"none", "dimension"} => call'.result
                /\ health_records' = health_records
                /\ schema' = schema
      ]_vars

\* both processes have run _setup_tables to the end while the table held a
\* record, the second of them on the schema the first had committed
C16_Witness ==
    /\ \A p \in Procs : setup[p].pc = "done"
    /\ SchemaOf(index) \subseteq schema
    /\ index.given
    /\ table # {}

\* C17: when creating the extension or the index fails in _setup_tables, the
\* process still holds a store on which get, put and delete work.
C17_KeyValueSurvives ==
    \A p \in Procs :
        setup[p].fault \in {"extension", "index"} => setup[p].pc # "failed"

----------------------------------------------------------------------------
(* Properties of the workflow *)

\* the step sequences of the graph
Paths ==
    { <<"agent">>,
      <<"agent", "call_tools", "grade_documents", "generate">>,
      <<"agent", "call_tools", "grade_documents", "rewrite">> }

IsPrefix(s, t) == Len(s) <= Len(t) /\ SubSeq(t, 1, Len(s)) = s

\* C18: every run terminates; no step runs more than once; the steps run so
\* far begin one of the two sequences of the graph (agent alone, or agent,
\* call_tools, grade_documents and then generate or rewrite), and a run that
\* reaches the end has run one of them in full; a run stops before the end
\* only where a step raised, never for want of a successor.
C18_WorkflowTerminates ==
    /\ [](workflow # NoRun =>
            /\ \E t \in Paths : IsPrefix(workflow.steps, t)
            /\ \A i, j \in DOMAIN workflow.steps :
                  i # j => workflow.steps[i] # workflow.steps[j]
            /\ workflow.node = "END" => workflow.steps \in Paths
            /\ workflow.node = "failed" => workflow.raised
            /\ workflow.node \in {"agent", "call_tools", "grade_documents",
                                  "generate", "rewrite", "END", "failed"})
    /\ (workflow # NoRun) ~> (workflow = NoRun)

\* a run that has reached the end through rewrite
C18_Witness ==
    /\ workflow # NoRun
    /\ workflow.node = "END"
    /\ workflow.steps
          = <<"agent", "call_tools", "grade_documents", "rewrite">>
    /\ workflow.state.final_output = Some("rewrite")

\* C19: when the reply of the model in grade_documents contains neither
\* 'generate' nor 'rewrite', route_after_grade is generate and the run goes
\* on to generate.
C19_GradeDefault ==
    ( /\ workflow # NoRun
      /\ workflow.reply # None
      /\ ~Contains(Lower(workflow.reply[1]),
                   <<"g", "e", "n", "e", "r", "a", "t", "e">>)
      /\ ~Contains(Lower(workflow.reply[1]),
                   <<"r", "e", "w", "r", "i", "t", "e">>) ) =>
        /\ workflow.state.route_after_grade = Some("generate")
        /\ workflow.steps[Len(workflow.steps)] = "grade_documents" =>
              workflow.node = "generate"

\* C20: a run on a query with two numbers and a corpus without documents, in
\* which the agent asked for tools and the tools ran: the multiply tool has
\* produced a result, and grade_documents routes to generate whatever the
\* model replies, so the steps are agent, call_tools, grade_documents,
\* generate.
C20_MultiplyScenario ==
    ( /\ workflow # NoRun
      /\ Len(ExtractNumbers(workflow.state.query)) = 2
      /\ health_records.rows = {}
      /\ Len(workflow.steps) >= 2
      /\ ~workflow.raised ) =>
        /\ workflow.state.multiply_result # None
        /\ Len(workflow.steps) >= 3 =>
              /\ workflow.state.route_after_grade = Some("generate")
              /\ IsPrefix(workflow.steps, <<"agent", "call_tools",
                                            "grade_documents", "generate">>)

\* C21: after call_tools, of graph/flow.py and of tools/tool_manager.py alike,
\* route_after_tools names exactly the tools among multiply and retriever, in
\* that order, whose result is not null, joined by "@", and is null when
\* neither has a result.
C21_RouteNamesTools ==
    (call.op \in { "call_tools", "tool_manager" } /\ ~call.raised) =>
        LET results == call.result[1]
            named == (IF ResultOf(results, "multiply_result") # None
                      THEN <<"multiply">> ELSE <<>>)
                     \o (IF ResultOf(results, "retriever_result") # None
                         THEN <<"retriever">> ELSE <<>>)
        IN  results.route_after_tools = JoinTools(named)

\* C22: the call_tools step runs both tools on every invocation and writes
\* only multiply_result, retriever_result and route_after_tools; query,
\* tools_condition, route_after_grade and final_output stay as they were, and
\* the step after call_tools is grade_documents whatever the tools returned
\* (a call_tools that raises writes nothing).
C22_CallToolsFrame ==
    [][ workflow.node = "call_tools" =>
          LET before == workflow.state
              after == workflow'.state
          IN  /\ \A f \in { "query", "tools_condition", "route_after_grade",
                             "final_output" } : after[f] = before[f]
              /\ workflow'.raised => after = before
              /\ ~workflow'.raised =>
                    /\ workflow'.node = "grade_documents"
                    /\ after.multiply_result = MultiplyResult(before.query)
                    /\ after.retriever_result # None
                    /\ after.route_after_tools =
                          RouteAfterTools(after.multiply_result,
                                          after.retriever_result) ]_vars

\* a run whose call_tools step has returned with both results
C22_Witness ==
    /\ workflow # NoRun
    /\ workflow.node = "grade_documents"
    /\ workflow.steps = <<"agent", "call_tools">>
    /\ workflow.state.route_after_tools = Some("multiply@retriever")
    /\ workflow.state.tools_condition = Some(TRUE)
    /\ workflow.state.route_after_grade = None

\* the numbers a reader counts in a text: the runs of digits, a run that
\* follows the point of a number being its decimals and no number of its own
RunStarts(s) ==
    { p \in DOMAIN s : s[p] \in Digits /\ (p = 1 \/ s[p - 1] \notin Digits) }

RunOf(s, i) ==
    CHOOSE r \in RunStarts(s) : r <= i /\ \A j \in r..i : s[j] \in Digits

RECURSIVE PlaceInChain(_, _)
PlaceInChain(s, p) ==
    IF p > 2 /\ s[p - 1] = "." /\ s[p - 2] \in Digits
    THEN PlaceInChain(s, RunOf(s, p - 2)) + 1
    ELSE 1

NumbersIn(s) == { p \in RunStarts(s) : PlaceInChain(s, p) % 2 = 1 }

\* the products of the queries, worked out by hand, as num / 10^scale
Products ==
    { [query |-> <<"1", "2", " ", "x", " ", "7">>, num |-> 84, scale |-> 0],
      [query |-> <<"2", ".", "5", "-", "3">>, num |-> 0 - 75, scale |-> 1],
      [query |-> <<"-", "2", " ", "-", "3">>, num |-> 6, scale |-> 0],
      [query |-> <<"2", " ", "3", " ", "4">>, num |-> 24, scale |-> 0],
      [query |-> <<"3", ".", "1", "4", ".", "1", "5">>,
       num |-> 471, scale |-> 1] }

\* C23: the multiply tool returns a null multiply_result exactly when the
\* query holds fewer than two numbers; otherwise multiply_result is present
\* and reports the product of the numbers of the query.
C23_MultiplyIffTwoNumbers ==
    call.op = "multiply_tool" =>
        LET result == call.result.multiply_result
        IN  /\ result = None <=> Cardinality(NumbersIn(call.query)) < 2
            /\ result # None =>
                  /\ Len(result[1].numbers) =
                        Cardinality(NumbersIn(call.query))
                  /\ \E e \in Products :
                        /\ e.query = call.query
                        /\ result[1].result.num * 10 ^ e.scale
                              = e.num * 10 ^ result[1].result.scale

\* the tool has multiplied a decimal and a negative number
C23_Witness ==
    /\ call.op = "multiply_tool"
    /\ call.query = <<"2", ".", "5", "-", "3">>
    /\ call.result.multiply_result # None

\* the node and the State a run has come to, worked out from its own query
\* and from what its own steps got from the model and from the tools
RECURSIVE Replay(_, _)
Replay(query, heard) ==
    IF heard = <<>> THEN [node |-> "agent", state |-> StartState(query)]
    ELSE LET before == Replay(query, SubSeq(heard, 1, Len(heard) - 1))
             h == heard[Len(heard)]
             update ==
                 CASE h.step = "agent" -> AgentUpdate(h.reply[1])
                   [] h.step = "call_tools" -> h.reply[1]
                   [] h.step = "grade_documents" ->
                        GradeUpdate(before.state, h.reply[1])
                   [] h.step = "generate" ->
                        [final_output |-> Some("generate")]
                   [] h.step = "rewrite" ->
                        [final_output |-> Some("rewrite")]
         IN  IF h.raised THEN [node |-> "failed", state |-> before.state]
             ELSE [node |-> Successor(h.step, Merge(before.state, update)),
                   state |-> Merge(before.state, update)]

\* C24: two /query requests served at the same time run each over its own
\* State: in every interleaving of their steps, a step of one request leaves
\* the run of the other as it was, and the node a run is at and every field of
\* its State, final_output included, follow from its own query and from the
\* replies to its own model and tool calls.
C24_RequestIsolation ==
    /\ [](\A r \in Requests : requests[r] # NoRun =>
            /\ requests[r].node =
                  Replay(requests[r].query, requests[r].heard).node
            /\ requests[r].state =
                  Replay(requests[r].query, requests[r].heard).state)
    /\ [][\A r \in Requests : requests'[r] # requests[r] =>
            \A o \in Requests \ {r} : requests'[o] = requests[o]]_vars

\* both requests are being served, on different queries, one graded to
\* generate while the other has not yet called its tools
C24_Witness ==
    /\ requests["q1"] # NoRun /\ requests["q2"] # NoRun
    /\ requests["q1"].query # requests["q2"].query
    /\ requests["q1"].node = "generate"
    /\ requests["q2"].node = "call_tools"
    /\ requests["q2"].state.multiply_result = None

\* C25: when several callers put to the same (namespace, key) at the same
\* time, in every interleaving, once all puts have completed there is exactly
\* one record for the key, with the value and the embedding of one and the
\* same put, the one that committed last.
C25_LastWriterWins ==
    Settled =>
        \A ns \in PutNamespaces, k \in Keys :
            LET puts == { w \in CommittedPuts :
                            writers[w].namespace = ns /\ writers[w].key = k }
                last == CHOOSE w \in puts :
                            \A o \in puts :
                                writers[o].stamp <= writers[w].stamp
            IN  puts # {} =>
                    RowsOf(table, Join(ns), k) =
                        { Row(Join(ns), k,
                              JsonLoads(JsonDumps(writers[last].value)),
                              writers[last].embedding) }

\* two puts of different texts to one key have both committed, the caller
\* that connected with "hi" last
C25_Witness ==
    /\ Settled
    /\ CommittedPuts = Writers
    /\ writers["w1"].key = writers["w2"].key
    /\ writers["w1"].value = [data |-> JStr("hi")]
    /\ writers["w2"].value = [data |-> JStr("yo")]
    /\ ~writers["w1"].embedding.isnull
    /\ writers["w1"].embedding # writers["w2"].embedding
    /\ writers["w1"].stamp = 2

\* C26: for any two different user ids and any sequence of chat requests,
\* the memories the chatbot step retrieves while serving a request of one
\* user never include a memory stored while serving a request of another.
C26_MemoryIsolation ==
    call.op = "chatbot" =>
        \A i \in DOMAIN call.memories :
            call.memories[i].id.by = call.user_id

\* a request of user "u" has retrieved its memory while the store holds
\* memories of "u/v" and of ""
C26_Witness ==
    /\ call.op = "chatbot"
    /\ call.user_id = "u"
    /\ call.memories # <<>>
    /\ \E r \in table : r.key.by = "u/v"
    /\ \E r \in table : r.key.by = ""

\* C27: the step after agent is call_tools exactly when agent has set
\* tools_condition to true; when it is false the run ends right after agent:
\* call_tools, grade_documents, generate and rewrite do not run, final_output
\* is never written, and the response says "No result generated".
C27_AgentToEnd ==
    /\ [][ (workflow.node = "agent" /\ ~workflow'.raised) =>
              /\ workflow'.node \in { "call_tools", "END" }
              /\ workflow'.node = "call_tools" <=>
                    workflow'.state.tools_condition = Some(TRUE)
              /\ workflow'.node = "END" <=>
                    workflow'.state.tools_condition = Some(FALSE) ]_vars
    /\ []( (workflow # NoRun /\ workflow.state.tools_condition = Some(FALSE))
             => /\ workflow.node = "END"
                /\ workflow.steps = <<"agent">>
                /\ workflow.state.final_output = None
                /\ ResultOfQuery(workflow.state) = "No result generated" )

\* the agent's model has answered without "true" and the run is at its end
C27_Witness ==
    /\ workflow # NoRun
    /\ workflow.node = "END"
    /\ workflow.steps = <<"agent">>
    /\ workflow.state.tools_condition = Some(FALSE)
    /\ workflow.state.query = <<"1", "2", " ", "x", " ", "7">>

\* C28: ingestion through /ingest is all-or-nothing for the stored corpus:
\* when database setup, embedding or insertion fails at any chunk, no chunk of
\* the failed ingestion is stored and the document table holds the same chunks
\* as before the request.
C28_IngestAllOrNothing ==
    [][ ( /\ call = NoCall
          /\ call'.op = "ingest"
          /\ call'.raised
          /\ call'.documents # <<>>
          /\ call'.fault.kind \in { "none", "connect", "setup", "embed",
                                    "insert" } ) =>
            health_records'.rows = health_records.rows ]_vars

\* C29: after any sequence of put, batch and delete, the embedding stored
\* with a record is the one the put that wrote the record's current value
\* computed from that value (null when it computed none): an overwritten key
\* keeps no embedding of an earlier value, and search ranks every record by
\* the embedding of its current value.
C29_NoStaleEmbedding ==
    /\ \A r \in table : r.embedding = EmbeddingFor(index, r.value)
    /\ (call.op = "search" /\ call.sent # None) =>
          \A i \in DOMAIN call.result :
              call.result[i].metadata.distance =
                  Distance(call.sent[1],
                           EmbeddingFor(index, call.result[i].value).vec)

\* one batch has written a text under a key and then a value without text
\* over it, in a store with an embedder
C29_Witness ==
    /\ Succeeded(call, "batch")
    /\ HasEmbedder(index)
    /\ Len(call.ops) = 2
    /\ call.ops[1] = PutOp(<<"a", "b">>, "k1", [data |-> JStr("hi")])
    /\ call.ops[2] = PutOp(<<"a", "b">>, "k1", [note |-> JStr("yo")])
    /\ \E r \in table :
          /\ r.key = "k1" /\ r.value = [note |-> JStr("yo")]
          /\ r.embedding # EmbeddingFor(index, [data |-> JStr("hi")])

\* C30: every operation of the store (schema setup, get, put, delete, batch,
\* search, clear) opens at most one connection and closes it before it
\* returns or raises, on success and on every failure: the open connections
\* are those of the operations under way, one each, and none is open once the
\* operations have ended.
C30_ConnectionsClosed ==
    connections = Cardinality(SetupsUnderWay) + Cardinality(PutsUnderWay)

\* a batch has failed at its commit while no setup and no put is under way
C30_Witness ==
    /\ call.op = "batch" /\ call.raised /\ call.fault.kind = "commit"
    /\ SetupsUnderWay = {} /\ PutsUnderWay = {}
    /\ \E p \in Procs : setup[p].pc = "failed"
    /\ writers["w1"].pc = "failed"
    /\ connections = 0

====
